---- MODULE Spec2Model ----
(***************************************************************************)
(* Authentication and session core of the diet SaaS backend: login with   *)
(* brute-force lockout, refresh, logout, logout-all, change-password,     *)
(* forgot/reset-password.  Every route handler is an async function; a    *)
(* handler is cut into one action per store access that other requests    *)
(* can interleave with.  Time is counted in seconds (the source counts    *)
(* milliseconds; every duration of the source is a whole number of        *)
(* seconds).                                                              *)
(***************************************************************************)
EXTENDS Integers, Sequences, FiniteSets, TLC

VARIABLES now, users, orgs, sessions, req, resp, tokensIssued, consecFails, refused,
          rateLimitStore, registry, orgData, patients, allowedAt, usageLedger

(* the tables and maps behind the tenant endpoints; allowedAt records, for *)
(* each rate-limit key, the times of the calls that were let through;      *)
(* usageLedger records, for each organization and resource, the sum of the *)
(* amounts of the increments made minus that of the decrements made        *)
tenantVars == <<rateLimitStore, registry, orgData, patients, allowedAt, usageLedger>>

(* the tables behind the authentication endpoints *)
authVars == <<now, users, orgs, sessions, tokensIssued, consecFails, refused>>

vars == <<now, users, orgs, sessions, req, resp, tokensIssued, consecFails, refused,
          tenantVars>>

(* ---------------- bounds of the model ---------------- *)
MaxSessions == 2
MaxQuanta == 2
MaxResetTokens == 1
MaxRefreshSessions == 1
MaxAmount == 2
MaxLimit == 2
MaxHalfHours == 4
MaxBelowZero == 1

(* ---------------- universe ---------------- *)
Users == {"u1", "u2"}
NoUser == "nobody"
Emails == Users \cup {NoUser}
Passwords == {"pwA", "pwB"}
Orgs == {"o1", "o2"}
Slots == 1..2
Null == -1
NoToken == 0
BogusToken == 99

MsPerUnit == 1000

(* ---------------- program constants ---------------- *)
MAX_LOGIN_ATTEMPTS == 5
LOCK_DURATION == (15 * 60 * 1000) \div MsPerUnit
RESET_TOKEN_TTL == (60 * 60 * 1000) \div MsPerUnit

UnitSeconds(unit) ==
  CASE unit = "d" -> (24 * 60 * 60 * 1000) \div MsPerUnit
    [] unit = "h" -> (60 * 60 * 1000) \div MsPerUnit
    [] unit = "m" -> (60 * 1000) \div MsPerUnit
    [] unit = "s" -> 1000 \div MsPerUnit

getTokenExpiration(value, unit) == now + value * UnitSeconds(unit)

REFRESH_TOKEN_EXPIRES_IN == <<30, "d">>
JWT_EXPIRES_IN == <<7, "d">>

getRefreshTokenExpiration ==
  getTokenExpiration(REFRESH_TOKEN_EXPIRES_IN[1], REFRESH_TOKEN_EXPIRES_IN[2])

(* the claims are userId, role and organizationId of the user row the caller read *)
generateAccessToken(userId) ==
  [userId |-> userId, role |-> users[userId].role,
   organizationId |-> users[userId].organizationId, iat |-> now,
   exp |-> now + JWT_EXPIRES_IN[1] * UnitSeconds(JWT_EXPIRES_IN[2])]

(* bcrypt compare(plain, hash(other)): true exactly for the hashed plain text *)
compare(plain, hashed) == plain = hashed

(* ---------------- clock ---------------- *)
(* The clock advances in steps of Quantum (half a lock) and, once, by the *)
(* lifetime of a refresh token, so that both a lock and a session expire  *)
(* within the bound.                                                      *)
Quantum == 450
Jump == REFRESH_TOKEN_EXPIRES_IN[1] * UnitSeconds(REFRESH_TOKEN_EXPIRES_IN[2])
TickSteps == {Quantum, Jump}

(* ---------------- initial state ---------------- *)
OrgOf(u) == IF u = "u1" THEN "o1" ELSE "o2"

ActiveOrg == [status |-> "ACTIVE", trialEndsAt |-> Null]

(* the worlds the lockout guard is explored in: <<u1 is active, o1's record>> *)
LockoutWorlds ==
  { <<TRUE, ActiveOrg>>,
    <<TRUE, [status |-> "TRIAL", trialEndsAt |-> Quantum]>>,
    <<TRUE, [status |-> "SUSPENDED", trialEndsAt |-> Null]>>,
    <<FALSE, ActiveOrg>> }

Idle == [op |-> "none", pc |-> "idle"]

(* the logins the environment submits: <<email, password>> *)
LoginInputs ==
  {<<"u1", "pwA">>, <<"u1", "pwB">>, <<"u2", "pwA">>, <<NoUser, "pwA">>}

(* the logins submitted while the lockout guard is explored *)
LockoutInputs == {<<"u1", "pwA">>, <<"u1", "pwB">>, <<NoUser, "pwA">>}

InitialUser(u, active) ==
  [password |-> "pwA", isActive |-> active, failedLoginAttempts |-> 0,
   lockedUntil |-> Null, resetPasswordToken |-> NoToken,
   resetPasswordExpires |-> Null, organizationId |-> OrgOf(u),
   role |-> "ORGANIZATION_OWNER"]

Patients == {"p1", "p2", "p3"}

(* p1 is a patient of u1; p2 is in u1's organization with another dietitian; *)
(* p3 belongs to the other organization                                      *)
InitialPatient(p) ==
  [organizationId |-> IF p = "p3" THEN "o2" ELSE "o1",
   dietitianId |-> IF p = "p1" THEN "u1" ELSE IF p = "p2" THEN "u9" ELSE "u2",
   isActive |-> TRUE, notes |-> "n0"]

(* no request was counted and nobody registered yet *)
InitTenant ==
  /\ rateLimitStore = [k \in {"register", "forgot-password", "ip1", "anonymous",
                              "verify-email:u1", "verify-email:u2"}
                         |-> [count |-> 0, resetAt |-> Null]]
  /\ registry = [organizations |-> {}, settings |-> {}, users |-> {}, consents |-> {}]
  /\ orgData = [o \in Orgs |->
        [plan |-> IF o = "o1" THEN "PROFESSIONAL" ELSE "FREE", settings |-> "default",
         branding |-> "none", customDomain |-> "none", domainVerified |-> FALSE,
         invited |-> {}, createdPatients |-> {}, aiQueriesResetAt |-> 0,
         current |-> [users |-> 1, patients |-> IF o = "o1" THEN 2 ELSE 1,
                      storage |-> 0, aiQueries |-> 0],
         max |-> [users |-> 2, patients |-> 3, storage |-> 2, aiQueries |-> 2]]]
  /\ patients = [p \in Patients |-> InitialPatient(p)]
  /\ allowedAt = [k \in {"register", "forgot-password", "ip1", "anonymous",
                         "verify-email:u1", "verify-email:u2"} |-> << >>]
  /\ usageLedger = [o \in Orgs |-> [users |-> 0, patients |-> 0, storage |-> 0,
                                    aiQueries |-> 0]]

InitCommon ==
  /\ now = 0
  /\ sessions = << >>
  /\ req = [r \in Slots |-> Idle]
  /\ resp = [op |-> "none"]
  /\ tokensIssued = 0
  /\ consecFails = [u \in Users |-> 0]
  /\ refused = {}
  /\ InitTenant

InitLockout ==
  /\ InitCommon
  /\ \E w \in LockoutWorlds :
       /\ users = [u \in Users |-> InitialUser(u, IF u = "u1" THEN w[1] ELSE TRUE)]
       /\ orgs = [o \in Orgs |-> IF o = "o1" THEN w[2] ELSE ActiveOrg]

Free(r) == req[r].pc = "idle"

(* requests are served by interchangeable workers: a new request is taken *)
(* by the first free one                                                   *)
Accepts(r) == Free(r) /\ \A q \in Slots : q < r => ~Free(q)

(* a handler returns: the slot is free again, resp is the response sent  *)
(* and event the security-log record the handler appended                 *)
Return(r, op, status, reason, event) ==
  /\ req' = [req EXCEPT ![r] = Idle]
  /\ resp' = [op |-> op, status |-> status, reason |-> reason, event |-> event]

Min(a, b) == IF a < b THEN a ELSE b

(* ---------------- lib/prisma: isTrialExpired ---------------- *)
isTrialExpired_IgnoresStatus(organizationId) ==
  LET organization == orgs[organizationId] IN
  IF organization.trialEndsAt = Null THEN FALSE
  ELSE now > organization.trialEndsAt

isTrialExpired(organizationId) ==
  LET organization == orgs[organizationId] IN
  IF organization.status # "TRIAL" THEN FALSE
  ELSE IF organization.trialEndsAt = Null THEN FALSE
  ELSE now > organization.trialEndsAt

(* ---------------- POST /auth/login ---------------- *)
InFlightLogins == Cardinality({q \in Slots : req[q].op = "login" /\ req[q].pc = "verify"})

IsLocked_NeverLifted(user) == user.lockedUntil # Null

IsLocked(user) == user.lockedUntil # Null /\ user.lockedUntil > now

LoginStart_ComparesWhenLocked(r, email, pw) ==
  /\ Accepts(r)
  /\ IF email = NoUser THEN TRUE
     ELSE IF compare(pw, users[email].password)
          THEN Len(sessions) + InFlightLogins < MaxSessions
          ELSE TRUE
  /\ IF email = NoUser
     THEN Return(r, "login", 401, "no_user", "none")
     ELSE LET user == users[email] IN
          /\ req' = [req EXCEPT ![r] =
                [op |-> "login", pc |-> "verify", userId |-> email, password |-> pw,
                 user |-> [password |-> user.password, isActive |-> user.isActive,
                           failedLoginAttempts |-> user.failedLoginAttempts,
                           lockedUntil |-> user.lockedUntil,
                           organizationId |-> user.organizationId,
                           orgStatus |-> orgs[user.organizationId].status]]]
          /\ UNCHANGED resp
  /\ UNCHANGED <<now, users, orgs, tenantVars, sessions, tokensIssued, consecFails, refused>>

(* findUnique by email and the lock check on the row just read *)
LoginStart(r, email, pw) ==
  /\ Accepts(r)
  /\ IF email = NoUser THEN TRUE
     ELSE IF compare(pw, users[email].password) /\ ~IsLocked(users[email])
          THEN Len(sessions) + InFlightLogins < MaxSessions
          ELSE TRUE
  /\ IF email = NoUser
     THEN Return(r, "login", 401, "no_user", "none")
     ELSE LET user == users[email] IN
          IF IsLocked(user)
          THEN Return(r, "login", 403, "locked", "none")
          ELSE /\ req' = [req EXCEPT ![r] =
                    [op |-> "login", pc |-> "verify", userId |-> email, password |-> pw,
                     user |-> [password |-> user.password, isActive |-> user.isActive,
                               failedLoginAttempts |-> user.failedLoginAttempts,
                               lockedUntil |-> user.lockedUntil,
                               organizationId |-> user.organizationId,
                               orgStatus |-> orgs[user.organizationId].status]]]
               /\ UNCHANGED resp
  /\ UNCHANGED <<now, users, orgs, tenantVars, sessions, tokensIssued, consecFails, refused>>

LoginFailed_LockAfterSixth(r) ==
  LET id == req[r].userId
      failedAttempts == req[r].user.failedLoginAttempts + 1
  IN /\ users' = [users EXCEPT
           ![id].failedLoginAttempts = failedAttempts,
           ![id].lockedUntil = IF failedAttempts > MAX_LOGIN_ATTEMPTS
                               THEN now + LOCK_DURATION ELSE @]
     /\ IF failedAttempts > MAX_LOGIN_ATTEMPTS
        THEN Return(r, "login", 403, "bad_password_locked", "login.failed")
        ELSE Return(r, "login", 401, "bad_password", "login.failed")
     /\ consecFails' = [consecFails EXCEPT ![id] = Min(@ + 1, MAX_LOGIN_ATTEMPTS)]
     /\ UNCHANGED sessions

(* wrong password: the counter read at LoginStart plus one is written back *)
LoginFailed(r) ==
  LET id == req[r].userId
      failedAttempts == req[r].user.failedLoginAttempts + 1
  IN /\ users' = [users EXCEPT
           ![id].failedLoginAttempts = failedAttempts,
           ![id].lockedUntil = IF failedAttempts >= MAX_LOGIN_ATTEMPTS
                               THEN now + LOCK_DURATION ELSE @]
     /\ IF failedAttempts >= MAX_LOGIN_ATTEMPTS
        THEN Return(r, "login", 403, "bad_password_locked", "login.failed")
        ELSE Return(r, "login", 401, "bad_password", "login.failed")
     /\ consecFails' = [consecFails EXCEPT ![id] = Min(@ + 1, MAX_LOGIN_ATTEMPTS)]
     /\ UNCHANGED sessions

LoginGate(r) ==
  LET user == req[r].user IN
  IF ~user.isActive THEN "inactive"
  ELSE IF user.orgStatus = "SUSPENDED" THEN "suspended"
  ELSE IF user.orgStatus = "CANCELLED" THEN "cancelled"
  ELSE IF isTrialExpired(user.organizationId) THEN "trial_expired"
  ELSE "ok"

(* password comparison; on success the account checks and userSession.create *)
LoginVerify(r) ==
  /\ req[r].op = "login" /\ req[r].pc = "verify"
  /\ IF ~compare(req[r].password, req[r].user.password)
     THEN LoginFailed(r)
     ELSE /\ consecFails' = [consecFails EXCEPT ![req[r].userId] = 0]
          /\ UNCHANGED users
          /\ IF LoginGate(r) # "ok"
             THEN /\ Return(r, "login", 403, LoginGate(r), "none")
                  /\ UNCHANGED sessions
             ELSE /\ sessions' = Append(sessions,
                        [userId |-> req[r].userId, isValid |-> TRUE,
                         expiresAt |-> getRefreshTokenExpiration,
                         accessToken |-> generateAccessToken(req[r].userId),
                         lastActivityAt |-> now])
                  /\ req' = [req EXCEPT ![r] =
                        [op |-> "login", pc |-> "update", userId |-> req[r].userId,
                         password |-> req[r].password, sid |-> Len(sessions) + 1]]
                  /\ UNCHANGED resp
  /\ UNCHANGED <<now, orgs, tenantVars, tokensIssued, refused>>

(* user.update after the session was created, then the 200 response *)
LoginUpdateUser(r) ==
  /\ req[r].op = "login" /\ req[r].pc = "update"
  /\ users' = [users EXCEPT ![req[r].userId].failedLoginAttempts = 0,
                            ![req[r].userId].lockedUntil = Null]
  /\ Return(r, "login", 200, "ok", "login.success")
  /\ UNCHANGED <<now, orgs, tenantVars, sessions, tokensIssued, consecFails, refused>>

(* ---------------- lib/utils/api: requireAuth ---------------- *)
(* The caller presents the access token stored in session tok (NoToken:    *)
(* none, BogusToken: one that verify() rejects).  The result is the id of  *)
(* the authenticated user, or NoUser for the 401 answer.                   *)
AccessTokens == {NoToken, BogusToken} \cup (1..Len(sessions))

RefreshTokens == {NoToken, BogusToken} \cup (1..Len(sessions))

(* the <<cookie, body>> pairs a refresh request carries: any token alone,  *)
(* and a cookie next to no body token or one that names no session         *)
RefreshInputs ==
  {in \in RefreshTokens \X RefreshTokens : in[1] = NoToken \/ in[2] \in {NoToken, BogusToken}}

(* the tokens of the sessions created so far *)
IssuedTokens == 1..Len(sessions)

requireAuth_ChecksSession(tok) ==
  IF tok \notin 1..Len(sessions) THEN NoUser
  ELSE LET decoded == sessions[tok].accessToken IN
       IF ~(now < decoded.exp) THEN NoUser
       ELSE IF ~sessions[tok].isValid THEN NoUser
       ELSE IF ~users[decoded.userId].isActive THEN NoUser
       ELSE decoded.userId

requireAuth(tok) ==
  IF tok \notin 1..Len(sessions) THEN NoUser
  ELSE LET decoded == sessions[tok].accessToken IN
       IF ~(now < decoded.exp) THEN NoUser
       ELSE IF ~users[decoded.userId].isActive THEN NoUser
       ELSE decoded.userId

(* ---------------- POST /auth/refresh ---------------- *)
RefreshCheck_NoValidCheck(refreshToken) ==
  IF refreshToken = NoToken THEN "no_token"
  ELSE IF refreshToken \notin 1..Len(sessions) THEN "not_found"
  ELSE LET session == sessions[refreshToken] IN
       IF session.expiresAt < now THEN "expired"
       ELSE IF ~users[session.userId].isActive THEN "inactive"
       ELSE "ok"

(* the checks on the session row found by its refresh token *)
RefreshCheck(refreshToken) ==
  IF refreshToken = NoToken THEN "no_token"
  ELSE IF refreshToken \notin 1..Len(sessions) THEN "not_found"
  ELSE LET session == sessions[refreshToken] IN
       IF ~session.isValid THEN "invalid"
       ELSE IF session.expiresAt < now THEN "expired"
       ELSE IF ~users[session.userId].isActive THEN "inactive"
       ELSE "ok"

(* cookieToken || bodyToken *)
Presented(cookieToken, bodyToken) ==
  IF cookieToken # NoToken THEN cookieToken ELSE bodyToken

(* findUnique with the owner, and the checks *)
RefreshStart(r, cookieToken, bodyToken) ==
  LET refreshToken == Presented(cookieToken, bodyToken)
      outcome == RefreshCheck(refreshToken)
  IN /\ Accepts(r)
     /\ IF outcome = "ok"
        THEN /\ req' = [req EXCEPT ![r] =
                  [op |-> "refresh", pc |-> "update", sid |-> refreshToken,
                   accessToken |-> generateAccessToken(sessions[refreshToken].userId),
                   lastActivityAt |-> now]]
             /\ UNCHANGED resp
        ELSE IF outcome = "expired"
        THEN /\ req' = [req EXCEPT ![r] =
                  [op |-> "refresh", pc |-> "expire", sid |-> refreshToken]]
             /\ UNCHANGED resp
        ELSE Return(r, "refresh", 401, outcome, "none")
     /\ UNCHANGED <<now, users, orgs, tenantVars, sessions, tokensIssued, consecFails>>

RefreshExpire_NoWrite(r) ==
  /\ req[r].op = "refresh" /\ req[r].pc = "expire"
  /\ UNCHANGED sessions
  /\ Return(r, "refresh", 401, "expired", "none")
  /\ UNCHANGED <<now, users, orgs, tenantVars, tokensIssued, consecFails>>

(* the expired session is marked invalid, then 401 *)
RefreshExpire(r) ==
  /\ req[r].op = "refresh" /\ req[r].pc = "expire"
  /\ sessions' = [sessions EXCEPT ![req[r].sid].isValid = FALSE]
  /\ Return(r, "refresh", 401, "expired", "none")
  /\ UNCHANGED <<now, users, orgs, tenantVars, tokensIssued, consecFails>>

RefreshUpdate_Revalidates(r) ==
  /\ req[r].op = "refresh" /\ req[r].pc = "update"
  /\ sessions' = [sessions EXCEPT ![req[r].sid].accessToken = req[r].accessToken,
                                  ![req[r].sid].lastActivityAt = req[r].lastActivityAt,
                                  ![req[r].sid].isValid = TRUE]
  /\ Return(r, "refresh", 200, "ok", "none")
  /\ UNCHANGED <<now, users, orgs, tenantVars, tokensIssued, consecFails>>

(* the new access token and lastActivityAt are stored, then 200 *)
RefreshUpdate(r) ==
  /\ req[r].op = "refresh" /\ req[r].pc = "update"
  /\ sessions' = [sessions EXCEPT ![req[r].sid].accessToken = req[r].accessToken,
                                  ![req[r].sid].lastActivityAt = req[r].lastActivityAt]
  /\ Return(r, "refresh", 200, "ok", "none")
  /\ UNCHANGED <<now, users, orgs, tenantVars, tokensIssued, consecFails>>

(* ---------------- POST /auth/logout ---------------- *)
LogoutTargets_AnyOwner(userId, refreshToken) ==
  {i \in 1..Len(sessions) : i = refreshToken}

(* updateMany where { userId, refreshToken } *)
LogoutTargets(userId, refreshToken) ==
  {i \in 1..Len(sessions) : sessions[i].userId = userId /\ i = refreshToken}

Invalidate_Deletes(targets) ==
  SelectSeq([i \in 1..Len(sessions) |->
               IF i \in targets THEN [sessions[i] EXCEPT !.userId = NoUser] ELSE sessions[i]],
            LAMBDA s : s.userId # NoUser)

Invalidate(targets) ==
  [i \in 1..Len(sessions) |->
     IF i \in targets THEN [sessions[i] EXCEPT !.isValid = FALSE] ELSE sessions[i]]

(* the response of logout: deleted is the set of cookies it deletes *)
LogoutResponse(r, status, reason, deleted) ==
  /\ req' = [req EXCEPT ![r] = Idle]
  /\ resp' = [op |-> "logout", status |-> status, reason |-> reason,
              event |-> "none", deleted |-> deleted]

Logout(r, tok, refreshToken) ==
  LET user == requireAuth(tok) IN
  /\ Accepts(r)
  /\ IF user = NoUser
     THEN /\ LogoutResponse(r, 401, "unauthorized", {})
          /\ UNCHANGED sessions
     ELSE /\ sessions' = IF refreshToken # NoToken
                         THEN Invalidate(LogoutTargets(user, refreshToken))
                         ELSE sessions
          /\ LogoutResponse(r, 200, "ok", {"accessToken", "refreshToken"})
  /\ UNCHANGED <<now, users, orgs, tenantVars, tokensIssued, consecFails, refused>>

(* updateMany throws: the catch block answers 200 and deletes the cookies *)
LogoutFault(r, tok, refreshToken) ==
  LET user == requireAuth(tok) IN
  /\ Accepts(r)
  /\ user # NoUser
  /\ refreshToken # NoToken
  /\ LogoutResponse(r, 200, "fault", {"accessToken", "refreshToken"})
  /\ UNCHANGED <<now, users, orgs, tenantVars, sessions, tokensIssued, consecFails, refused>>

(* ---------------- DELETE /auth/logout/all ---------------- *)
LogoutAll_SparesCurrent(r, tok) ==
  LET user == requireAuth(tok) IN
  /\ Accepts(r)
  /\ IF user = NoUser
     THEN /\ Return(r, "logout_all", 401, "unauthorized", "none")
          /\ UNCHANGED sessions
     ELSE /\ sessions' = Invalidate({i \in 1..Len(sessions) :
                                       sessions[i].userId = user /\ sessions[i].isValid
                                         /\ i # tok})
          /\ Return(r, "logout_all", 200, "ok", "logout.all_devices")
  /\ UNCHANGED <<now, users, orgs, tenantVars, tokensIssued, consecFails, refused>>

LogoutAll(r, tok) ==
  LET user == requireAuth(tok) IN
  /\ Accepts(r)
  /\ IF user = NoUser
     THEN /\ Return(r, "logout_all", 401, "unauthorized", "none")
          /\ UNCHANGED sessions
     ELSE /\ sessions' = Invalidate({i \in 1..Len(sessions) :
                                       sessions[i].userId = user /\ sessions[i].isValid})
          /\ Return(r, "logout_all", 200, "ok", "logout.all_devices")
  /\ UNCHANGED <<now, users, orgs, tenantVars, tokensIssued, consecFails, refused>>

(* ---------------- POST /auth/change-password ---------------- *)
(* requireAuth, the current-password check and the password update *)
ChangePasswordStart(r, tok, cookie, currentPassword, newPassword) ==
  LET user == requireAuth(tok) IN
  /\ Accepts(r)
  /\ IF user = NoUser
     THEN /\ Return(r, "change_password", 401, "unauthorized", "none")
          /\ UNCHANGED users
     ELSE IF ~compare(currentPassword, users[user].password)
     THEN /\ Return(r, "change_password", 401, "bad_password", "password.change_failed")
          /\ UNCHANGED users
     ELSE IF currentPassword = newPassword
     THEN /\ Return(r, "change_password", 400, "same_password", "none")
          /\ UNCHANGED users
     ELSE /\ users' = [users EXCEPT ![user].password = newPassword]
          /\ req' = [req EXCEPT ![r] =
                [op |-> "change_password", pc |-> "sessions", userId |-> user,
                 currentRefreshToken |-> cookie]]
          /\ UNCHANGED resp
  /\ UNCHANGED <<now, orgs, tenantVars, sessions, tokensIssued, consecFails, refused>>

ChangePasswordTargets_NoException(userId, currentRefreshToken) ==
  {i \in 1..Len(sessions) : sessions[i].userId = userId /\ sessions[i].isValid}

(* updateMany where { userId, isValid: true, refreshToken: { not: cookie || '' } } *)
ChangePasswordTargets(userId, currentRefreshToken) ==
  {i \in 1..Len(sessions) :
     /\ sessions[i].userId = userId
     /\ sessions[i].isValid
     /\ i # currentRefreshToken}

ChangePasswordSessions(r) ==
  /\ req[r].op = "change_password" /\ req[r].pc = "sessions"
  /\ sessions' = Invalidate(ChangePasswordTargets(req[r].userId, req[r].currentRefreshToken))
  /\ Return(r, "change_password", 200, "ok", "password.changed")
  /\ UNCHANGED <<now, users, orgs, tenantVars, tokensIssued, consecFails, refused>>

(* ---------------- lib/utils/api: rateLimit ---------------- *)
(* one client address; a key without a record maps to NoRecord *)
NoRecord == [count |-> 0, resetAt |-> Null]

RateKeys == {"register", "forgot-password"}

HOUR == (60 * 60 * 1000) \div MsPerUnit

rateLimit_OneMore(key, limit) ==
  LET record == rateLimitStore[key] IN
  IF record = NoRecord \/ record.resetAt < now THEN TRUE
  ELSE record.count <= limit

(* rateLimit(key, limit, windowMs) returns TRUE when the request may pass; *)
(* rateLimited is the store it leaves behind                                *)
rateLimit(key, limit) ==
  LET record == rateLimitStore[key] IN
  IF record = NoRecord \/ record.resetAt < now THEN TRUE
  ELSE record.count < limit

rateLimited_RenewsAtResetAt(key, limit, windowMs) ==
  LET record == rateLimitStore[key] IN
  IF record = NoRecord \/ record.resetAt <= now
  THEN [rateLimitStore EXCEPT ![key] = [count |-> 1, resetAt |-> now + windowMs]]
  ELSE IF record.count >= limit THEN rateLimitStore
  ELSE [rateLimitStore EXCEPT ![key].count = record.count + 1]

rateLimited(key, limit, windowMs) ==
  LET record == rateLimitStore[key] IN
  IF record = NoRecord \/ record.resetAt < now
  THEN [rateLimitStore EXCEPT ![key] = [count |-> 1, resetAt |-> now + windowMs]]
  ELSE IF record.count >= limit THEN rateLimitStore
  ELSE [rateLimitStore EXCEPT ![key].count = record.count + 1]

(* applyRateLimit called by a handler: the 429 response or null (status   *)
(* 200 stands for the null that lets the handler go on); rateLimit has no  *)
(* await, so a call is one step                                            *)
ApplyRateLimit(key, limit, windowMs) ==
  /\ rateLimitStore' = rateLimited(key, limit, windowMs)
  /\ resp' = [op |-> "rate_limit", key |-> key,
              status |-> IF rateLimit(key, limit) THEN 200 ELSE 429,
              reason |-> IF rateLimit(key, limit) THEN "allowed" ELSE "rate_limit",
              event |-> "none"]
  /\ allowedAt' = IF rateLimit(key, limit)
                  THEN [allowedAt EXCEPT ![key] = Append(@, now)]
                  ELSE allowedAt
  /\ UNCHANGED <<authVars, req, registry, orgData, patients, usageLedger>>

(* ---------------- POST /auth/forgot-password ---------------- *)
ForgotPassword(r, email) ==
  /\ Accepts(r)
  /\ IF email = NoUser
     THEN /\ UNCHANGED <<users, tokensIssued>>
          /\ Return(r, "forgot_password", 200, "generic", "none")
     ELSE IF ~users[email].isActive
     THEN /\ UNCHANGED <<users, tokensIssued>>
          /\ Return(r, "forgot_password", 200, "generic", "none")
     ELSE /\ tokensIssued < MaxResetTokens
          /\ tokensIssued' = tokensIssued + 1
          /\ users' = [users EXCEPT
                ![email].resetPasswordToken = tokensIssued + 1,
                ![email].resetPasswordExpires = now + RESET_TOKEN_TTL]
          /\ Return(r, "forgot_password", 200, "generic", "password.reset_requested")
  /\ UNCHANGED <<now, orgs, tenantVars, sessions, consecFails, refused>>

(* the handler behind the rate limiter of one client address, with the    *)
(* faults of the store: of the lookup, of the update, of the security log  *)
ForgotFaults == {"none", "lookup", "update", "log"}

ForgotLimit == 3

(* status and body of the response *)
ForgotResponse_RevealsMissing(email, fault) ==
  IF ~rateLimit("forgot-password", ForgotLimit) THEN <<429, "rate_limit">>
  ELSE IF fault = "lookup" THEN <<200, "generic">>
  ELSE IF email = NoUser THEN <<404, "no_user">>
  ELSE <<200, "generic">>

ForgotResponse(email, fault) ==
  IF ~rateLimit("forgot-password", ForgotLimit) THEN <<429, "rate_limit">>
  ELSE IF fault = "lookup" THEN <<200, "generic">>
  ELSE IF email = NoUser THEN <<200, "generic">>
  ELSE IF ~users[email].isActive THEN <<200, "generic">>
  ELSE IF fault = "update" THEN <<200, "generic">>
  ELSE IF fault = "log" THEN <<200, "generic">>
  ELSE <<200, "generic">>

(* the reset token is stored when the lookup finds an active user and the *)
(* update does not fail                                                    *)
ForgotStoresToken(email, fault) ==
  /\ rateLimit("forgot-password", ForgotLimit)
  /\ fault \notin {"lookup", "update"}
  /\ IF email = NoUser THEN FALSE ELSE users[email].isActive

ForgotPasswordLimited(r, email, fault) ==
  /\ Accepts(r)
  /\ rateLimitStore' = rateLimited("forgot-password", ForgotLimit, HOUR)
  /\ IF ForgotStoresToken(email, fault)
     THEN /\ tokensIssued' = tokensIssued + 1
          /\ users' = [users EXCEPT
                ![email].resetPasswordToken = tokensIssued + 1,
                ![email].resetPasswordExpires = now + RESET_TOKEN_TTL]
     ELSE UNCHANGED <<users, tokensIssued>>
  /\ Return(r, "forgot_password", ForgotResponse(email, fault)[1],
            ForgotResponse(email, fault)[2],
            IF ForgotStoresToken(email, fault) /\ fault = "none"
            THEN "password.reset_requested" ELSE "none")
  /\ UNCHANGED <<now, orgs, sessions, consecFails, refused, registry, orgData, patients, allowedAt, usageLedger>>

(* ---------------- POST /auth/reset-password ---------------- *)
ResetTokens == {BogusToken} \cup (1..tokensIssued)

(* findFirst where { resetPasswordToken, resetPasswordExpires: { gt: now } } *)
FindByResetToken(token) ==
  {u \in Users : users[u].resetPasswordToken = token /\ users[u].resetPasswordExpires > now}

ResetPasswordStart(r, token, password) ==
  /\ Accepts(r)
  /\ IF FindByResetToken(token) = {}
     THEN Return(r, "reset_password", 400, "bad_token", "none")
     ELSE /\ req' = [req EXCEPT ![r] =
                [op |-> "reset_password", pc |-> "update",
                 userId |-> CHOOSE u \in FindByResetToken(token) : TRUE,
                 token |-> token, password |-> password]]
          /\ UNCHANGED resp
  /\ UNCHANGED <<now, users, orgs, tenantVars, sessions, tokensIssued, consecFails, refused>>

(* the new password is stored and the reset token cleared *)
ResetPasswordUpdate(r) ==
  /\ req[r].op = "reset_password" /\ req[r].pc = "update"
  /\ users' = [users EXCEPT ![req[r].userId].password = req[r].password,
                            ![req[r].userId].resetPasswordToken = NoToken,
                            ![req[r].userId].resetPasswordExpires = Null]
  /\ req' = [req EXCEPT ![r] =
        [op |-> "reset_password", pc |-> "sessions", userId |-> req[r].userId,
         token |-> req[r].token]]
  /\ UNCHANGED <<now, orgs, tenantVars, sessions, resp, tokensIssued, consecFails, refused>>

(* updateMany where { userId } *)
ResetPasswordTargets(userId) ==
  {i \in 1..Len(sessions) : sessions[i].userId = userId}

ResetPasswordSessions(r) ==
  /\ req[r].op = "reset_password" /\ req[r].pc = "sessions"
  /\ sessions' = Invalidate(ResetPasswordTargets(req[r].userId))
  /\ Return(r, "reset_password", 200, "ok", "password.reset_completed")
  /\ UNCHANGED <<now, users, orgs, tenantVars, tokensIssued, consecFails, refused>>

(* ---------------- POST /auth/register ---------------- *)
(* the registrations the environment submits: <<email, subdomain, tcKimlikNo>> *)
(* "u1" is the email of a stored user, "o1" the subdomain of a stored       *)
(* organization                                                              *)
RegisterInputs ==
  { <<"u1", "s1", "t1">>, <<"e1", "o1", "t1">>, <<"e1", "s1", "t1">>,
    <<"e2", "s1", "t2">>, <<"e1", "s2", "t2">>, <<"e2", "s2", "t1">> }

EmailTaken(email) ==
  email \in Users \/ \E u \in registry.users : u.email = email

SubdomainTaken(subdomain) ==
  subdomain \in Orgs \/ \E o \in registry.organizations : o.subdomain = subdomain

TcKimlikNoTaken(tc) == \E u \in registry.users : u.tcKimlikNo = tc

RegisterLimit == 3

(* rate limit, then the lookup of the email *)
RegisterStart(r, in) ==
  /\ Accepts(r)
  /\ rateLimitStore' = rateLimited("register", RegisterLimit, HOUR)
  /\ IF ~rateLimit("register", RegisterLimit)
     THEN Return(r, "register", 429, "rate_limit", "none")
     ELSE IF EmailTaken(in[1])
     THEN Return(r, "register", 409, "email", "none")
     ELSE /\ req' = [req EXCEPT ![r] =
                [op |-> "register", pc |-> "subdomain", email |-> in[1],
                 subdomain |-> in[2], tcKimlikNo |-> in[3]]]
          /\ UNCHANGED resp
  /\ UNCHANGED <<authVars, registry, orgData, patients, allowedAt, usageLedger>>

(* the lookup of the subdomain *)
RegisterSubdomain(r) ==
  /\ req[r].op = "register" /\ req[r].pc = "subdomain"
  /\ IF SubdomainTaken(req[r].subdomain)
     THEN Return(r, "register", 409, "subdomain", "none")
     ELSE /\ req' = [req EXCEPT ![r].pc = "tcKimlikNo"]
          /\ UNCHANGED resp
  /\ UNCHANGED <<authVars, tenantVars>>

(* the lookup of the national id *)
RegisterTcKimlikNo(r) ==
  /\ req[r].op = "register" /\ req[r].pc = "tcKimlikNo"
  /\ IF TcKimlikNoTaken(req[r].tcKimlikNo)
     THEN Return(r, "register", 409, "tcKimlikNo", "none")
     ELSE /\ req' = [req EXCEPT ![r].pc = "transaction"]
          /\ UNCHANGED resp
  /\ UNCHANGED <<authVars, tenantVars>>

NextId == Cardinality(registry.organizations) + 1

(* the rows the transaction has written when statement number done is the *)
(* last one that ran: organization, settings, user, consent               *)
RegisterRows(r, done) ==
  LET id == NextId IN
  [organizations |-> registry.organizations \cup
       (IF done >= 1 THEN {[id |-> id, subdomain |-> req[r].subdomain, status |-> "TRIAL"]}
        ELSE {}),
   settings |-> registry.settings \cup (IF done >= 2 THEN {id} ELSE {}),
   users |-> registry.users \cup
       (IF done >= 3 THEN {[id |-> id, email |-> req[r].email,
                            tcKimlikNo |-> req[r].tcKimlikNo, organizationId |-> id,
                            role |-> "ORGANIZATION_OWNER"]}
        ELSE {}),
   consents |-> registry.consents \cup (IF done >= 4 THEN {id} ELSE {})]

(* what is left of a transaction that stopped after statement number done: *)
(* the store without the transaction's rows                                *)
RolledBack_KeepsRows(r, done) == RegisterRows(r, done)

RolledBack(r, done) == registry

(* the transaction: a unique index refuses the organization or the user, *)
(* or all four rows are written                                           *)
RegisterTransaction(r) ==
  /\ req[r].op = "register" /\ req[r].pc = "transaction"
  /\ IF SubdomainTaken(req[r].subdomain)
     THEN /\ registry' = RolledBack(r, 0)
          /\ Return(r, "register", 409, "subdomain", "none")
     ELSE IF EmailTaken(req[r].email)
     THEN /\ registry' = RolledBack(r, 2)
          /\ Return(r, "register", 409, "email", "none")
     ELSE IF TcKimlikNoTaken(req[r].tcKimlikNo)
     THEN /\ registry' = RolledBack(r, 2)
          /\ Return(r, "register", 409, "tcKimlikNo", "none")
     ELSE /\ registry' = RegisterRows(r, 4)
          /\ Return(r, "register", 201, "created", "none")
  /\ UNCHANGED <<authVars, rateLimitStore, orgData, patients, allowedAt, usageLedger>>

(* a lookup fails, or a statement of the transaction fails after done     *)
(* statements ran                                                          *)
RegisterFault(r, done) ==
  /\ req[r].op = "register"
  /\ registry' = IF req[r].pc = "transaction" THEN RolledBack(r, done) ELSE registry
  /\ Return(r, "register", 500, "fault", "none")
  /\ UNCHANGED <<authVars, rateLimitStore, orgData, patients, allowedAt, usageLedger>>

(* ---------------- /organizations/[id]/... ---------------- *)
Roles == {"SUPER_ADMIN", "ORGANIZATION_OWNER", "DIETITIAN"}

(* the handlers under /organizations/[id] *)
Endpoints ==
  {"settings.GET", "settings.PATCH", "branding.GET", "branding.PATCH", "branding.DELETE",
   "domain.POST", "domain.DELETE", "domain.verify.GET", "users.GET", "users.POST"}

(* the handlers that start with the check of the caller's role *)
OwnerOnly ==
  {"settings.PATCH", "branding.PATCH", "branding.DELETE", "domain.POST", "domain.DELETE",
   "users.POST"}

SubscriptionPlans == {"FREE", "STARTER", "PROFESSIONAL", "ENTERPRISE"}

(* the table of hasFeature: the features listed under each plan *)
features ==
  [FREE |-> {"basic_diet_plans", "patient_management"},
   STARTER |-> {"basic_diet_plans", "patient_management", "ai_diet_plans", "appointments",
                "messaging"},
   PROFESSIONAL |-> {"basic_diet_plans", "patient_management", "ai_diet_plans", "appointments",
                     "messaging", "video_consultation", "white_label", "custom_domain",
                     "advanced_reports"},
   ENTERPRISE |-> {"basic_diet_plans", "patient_management", "ai_diet_plans", "appointments",
                   "messaging", "video_consultation", "white_label", "custom_domain",
                   "advanced_reports", "api_access", "priority_support",
                   "custom_integrations"}]

(* keys every object literal inherits from Object.prototype: features[key] is then a
   value that is neither null nor undefined and has no includes method *)
InheritedKeys == {"constructor", "toString"}

(* features[plan]?.includes(feature) raises a TypeError: features[plan] is defined
   but its includes property is not a function *)
hasFeature_Throws(plan, feature) ==
  plan \notin SubscriptionPlans /\ plan \in InheritedKeys

(* the value hasFeature returns when it returns one *)
hasFeature(plan, feature) ==
  IF plan \in SubscriptionPlans THEN feature \in features[plan]
  ELSE FALSE

requireFeature_IgnoresStatus(organizationId, feature) ==
  IF organizationId \notin Orgs THEN "not_found"
  ELSE IF ~hasFeature(orgData[organizationId].plan, feature) THEN "plan"
  ELSE "ok"

(* requireFeature: "ok", "not_found" for its 404, or the reason of its 403 *)
requireFeature(organizationId, feature) ==
  IF organizationId \notin Orgs THEN "not_found"
  ELSE IF orgs[organizationId].status \in {"SUSPENDED", "CANCELLED"} THEN "suspended"
  ELSE IF ~hasFeature(orgData[organizationId].plan, feature) THEN "plan"
  ELSE "ok"

requireOrganizationAccess_NoMembership(userId, organizationId) ==
  users[userId].role \in Roles

requireOrganizationAccess(userId, organizationId) ==
  IF users[userId].role = "SUPER_ADMIN" THEN TRUE
  ELSE users[userId].organizationId = organizationId

(* the response of an organization handler; org is the organization whose *)
(* rows the handler read or wrote, Null when it touched none               *)
OrgResponse(r, status, reason, org) ==
  /\ req' = [req EXCEPT ![r] = Idle]
  /\ resp' = [op |-> "organizations", status |-> status, reason |-> reason,
              event |-> "none", org |-> org]

(* requireAuth and, in the handlers for owners, the check of the role *)
OrgStart(r, tok, ep, organizationId) ==
  /\ Accepts(r)
  /\ LET userId == requireAuth(tok) IN
     IF userId = NoUser
     THEN OrgResponse(r, 401, "unauthorized", Null)
     ELSE IF ep \in OwnerOnly /\ users[userId].role \notin {"ORGANIZATION_OWNER", "SUPER_ADMIN"}
     THEN OrgResponse(r, 403, "role", Null)
     ELSE /\ req' = [req EXCEPT ![r] =
                [op |-> "organizations", pc |-> "access", ep |-> ep,
                 org |-> organizationId, userId |-> userId]]
          /\ UNCHANGED resp
  /\ UNCHANGED <<authVars, tenantVars>>

(* requireOrganizationAccess(user.id, params.id) *)
OrgAccess(r) ==
  /\ req[r].op = "organizations" /\ req[r].pc = "access"
  /\ IF ~requireOrganizationAccess(req[r].userId, req[r].org)
     THEN OrgResponse(r, 403, "no_access", Null)
     ELSE /\ req' = [req EXCEPT ![r].pc = "data"]
          /\ UNCHANGED resp
  /\ UNCHANGED <<authVars, tenantVars>>

(* the custom domain the callers submit, and the email they invite *)
SubmittedDomain == "d1"
InvitedEmail == "e1"

DomainTakenElsewhere(organizationId) ==
  \E o \in Orgs : o # organizationId /\ orgData[o].customDomain = SubmittedDomain

InvitedAnywhere == \E o \in Orgs : InvitedEmail \in orgData[o].invited

(* the rest of each handler: <<the organization's rows afterwards, status, reason>>; *)
(* autoVerify is NODE_ENV = development                                              *)
OrgEffect(ep, o, autoVerify) ==
  LET d == orgData[o] IN
  CASE ep = "settings.GET" -> <<d, 200, "ok">>
    [] ep = "settings.PATCH" -> <<[d EXCEPT !.settings = "patched"], 200, "ok">>
    [] ep = "branding.GET" ->
         <<[d EXCEPT !.branding = IF @ = "none" THEN "default" ELSE @], 200, "ok">>
    [] ep = "branding.PATCH" ->
         IF requireFeature(o, "white_label") # "ok"
         THEN <<d, 403, requireFeature(o, "white_label")>>
         ELSE <<[d EXCEPT !.branding = "custom"], 200, "ok">>
    [] ep = "branding.DELETE" ->
         IF d.branding = "none" THEN <<d, 500, "fault">>
         ELSE <<[d EXCEPT !.branding = "default"], 200, "ok">>
    [] ep = "domain.POST" ->
         IF requireFeature(o, "custom_domain") # "ok"
         THEN <<d, 403, requireFeature(o, "custom_domain")>>
         ELSE IF DomainTakenElsewhere(o) THEN <<d, 409, "domain">>
         ELSE <<[d EXCEPT !.customDomain = SubmittedDomain, !.domainVerified = FALSE],
                200, "ok">>
    [] ep = "domain.DELETE" ->
         <<[d EXCEPT !.customDomain = "none", !.domainVerified = FALSE], 200, "ok">>
    [] ep = "domain.verify.GET" ->
         IF d.customDomain = "none" THEN <<d, 404, "no_domain">>
         ELSE IF d.domainVerified THEN <<d, 200, "ok">>
         ELSE IF autoVerify THEN <<[d EXCEPT !.domainVerified = TRUE], 200, "ok">>
         ELSE <<d, 200, "ok">>
    [] ep = "users.GET" -> <<d, 200, "ok">>
    [] ep = "users.POST" ->
         IF d.current.users >= d.max.users THEN <<d, 403, "usage">>
         ELSE IF InvitedAnywhere
         THEN <<[d EXCEPT !.current.users = @ + 1], 409, "email">>
         ELSE <<[d EXCEPT !.current.users = @ + 1, !.invited = @ \cup {InvitedEmail}],
                201, "created">>

(* the reads and writes of the handler on the rows of params.id *)
OrgData(r, autoVerify) ==
  /\ req[r].op = "organizations" /\ req[r].pc = "data"
  /\ LET e == OrgEffect(req[r].ep, req[r].org, autoVerify) IN
     /\ orgData' = [orgData EXCEPT ![req[r].org] = e[1]]
     /\ usageLedger' = [usageLedger EXCEPT ![req[r].org].users =
                           @ + e[1].current.users - orgData[req[r].org].current.users]
     /\ OrgResponse(r, e[2], e[3], req[r].org)
  /\ UNCHANGED <<authVars, rateLimitStore, registry, patients, allowedAt>>

(* ---------------- /patients and /patients/[id] ---------------- *)
PatientMethods == {"GET", "PATCH", "DELETE", "LIST"}

requireRole(user, allowedRoles) == user.role \in allowedRoles

AllowedRoles(method) ==
  IF method = "PATCH" THEN {"ORGANIZATION_OWNER", "DIETITIAN", "ASSISTANT"}
  ELSE IF method = "DELETE" THEN {"ORGANIZATION_OWNER"}
  ELSE Roles \cup {"ASSISTANT"}

(* the where clause of findFirst / findMany, without the id *)
PatientWhere_AnyOrganization(method, user, p) ==
  IF method # "DELETE" /\ user.role = "DIETITIAN"
  THEN patients[p].dietitianId = user.id
  ELSE TRUE

PatientWhere(method, user, p) ==
  /\ patients[p].organizationId = user.organizationId
  /\ IF method # "DELETE" /\ user.role = "DIETITIAN"
     THEN patients[p].dietitianId = user.id
     ELSE TRUE

(* the response of a patient handler: rows are the patients it returned *)
(* or changed                                                           *)
PatientResponse(r, status, reason, rows) ==
  /\ req' = [req EXCEPT ![r] = Idle]
  /\ resp' = [op |-> "patients", status |-> status, reason |-> reason,
              event |-> "none", rows |-> rows]

(* requireAuth and requireRole; user is what requireAuth returned *)
PatientStart(r, tok, method, id) ==
  /\ Accepts(r)
  /\ LET userId == requireAuth(tok) IN
     IF userId = NoUser
     THEN PatientResponse(r, 401, "unauthorized", {})
     ELSE LET user == [id |-> userId, role |-> users[userId].role,
                       organizationId |-> users[userId].organizationId] IN
          IF ~requireRole(user, AllowedRoles(method))
          THEN PatientResponse(r, 403, "role", {})
          ELSE /\ req' = [req EXCEPT ![r] =
                     [op |-> "patients", pc |-> "find", method |-> method, id |-> id,
                      user |-> user]]
               /\ UNCHANGED resp
  /\ UNCHANGED <<authVars, tenantVars>>

(* findFirst / findMany under the where clause *)
PatientFind(r) ==
  /\ req[r].op = "patients" /\ req[r].pc = "find"
  /\ LET m == req[r].method
         found == {p \in Patients : PatientWhere(m, req[r].user, p)} IN
     IF m = "LIST" THEN PatientResponse(r, 200, "ok", found)
     ELSE IF req[r].id \notin found THEN PatientResponse(r, 404, "not_found", {})
     ELSE IF m = "GET" THEN PatientResponse(r, 200, "ok", {req[r].id})
     ELSE /\ req' = [req EXCEPT ![r].pc = "update"]
          /\ UNCHANGED resp
  /\ UNCHANGED <<authVars, tenantVars>>

PatientUpdate_FloorsAtZero(r) ==
  /\ req[r].op = "patients" /\ req[r].pc = "update"
  /\ IF req[r].method = "PATCH"
     THEN /\ patients' = [patients EXCEPT ![req[r].id].notes = "n1"]
          /\ UNCHANGED <<orgData, usageLedger>>
     ELSE /\ patients' = [patients EXCEPT ![req[r].id].isActive = FALSE]
          /\ orgData' = [orgData EXCEPT ![req[r].user.organizationId].current.patients =
                            IF @ > 0 THEN @ - 1 ELSE 0]
          /\ usageLedger' = [usageLedger EXCEPT ![req[r].user.organizationId].patients = @ - 1]
  /\ PatientResponse(r, 200, "ok", {req[r].id})
  /\ UNCHANGED <<authVars, rateLimitStore, registry, allowedAt>>

(* patient.update where { id }; DELETE then decrements the usage counter *)
(* of the caller's organization                                          *)
PatientUpdate(r) ==
  /\ req[r].op = "patients" /\ req[r].pc = "update"
  /\ IF req[r].method = "PATCH"
     THEN /\ patients' = [patients EXCEPT ![req[r].id].notes = "n1"]
          /\ UNCHANGED <<orgData, usageLedger>>
     ELSE /\ patients' = [patients EXCEPT ![req[r].id].isActive = FALSE]
          /\ orgData' = [orgData EXCEPT ![req[r].user.organizationId].current.patients = @ - 1]
          /\ usageLedger' = [usageLedger EXCEPT ![req[r].user.organizationId].patients = @ - 1]
  /\ PatientResponse(r, 200, "ok", {req[r].id})
  /\ UNCHANGED <<authVars, rateLimitStore, registry, allowedAt>>

(* ---------------- lib/utils/api: checkAndIncrementUsage ---------------- *)
ResourceTypes == {"users", "patients", "storage", "aiQueries"}

(* getFullYear() * 12 + getMonth() of a time, with months of thirty days *)
MonthOf(t) == t \div Jump

UsageCheck_NoLimit(r, organizationId, type, amount) ==
  /\ Accepts(r)
  /\ orgData[organizationId].current[type] <= orgData[organizationId].max[type] + 4 * MaxAmount
  /\ req' = [req EXCEPT ![r] =
        [op |-> "usage", pc |-> "increment", org |-> organizationId,
         type |-> type, amount |-> amount, now |-> now,
         current |-> orgData[organizationId].current[type]]]
  /\ UNCHANGED <<authVars, tenantVars, resp>>

(* checkUsageLimit reads the organization; a month after aiQueriesResetAt *)
(* the aiQueries counter is to be reset, otherwise current is compared    *)
(* with max                                                                *)
UsageCheck(r, organizationId, type, amount) ==
  /\ Accepts(r)
  /\ LET organization == orgData[organizationId]
         monthDiff == MonthOf(now) - MonthOf(organization.aiQueriesResetAt) IN
     IF type = "aiQueries" /\ monthDiff >= 1
     THEN /\ req' = [req EXCEPT ![r] =
                [op |-> "usage", pc |-> "reset", org |-> organizationId, type |-> type,
                 amount |-> amount, now |-> now,
                 current |-> organization.current[type]]]
          /\ UNCHANGED resp
     ELSE IF organization.current[type] >= organization.max[type]
     THEN Return(r, "usage", 403, "exceeded", "none")
     ELSE /\ req' = [req EXCEPT ![r] =
                [op |-> "usage", pc |-> "increment", org |-> organizationId,
                 type |-> type, amount |-> amount, now |-> now,
                 current |-> organization.current[type]]]
          /\ UNCHANGED resp
  /\ UNCHANGED <<authVars, tenantVars>>

(* the reset of the aiQueries counter inside checkUsageLimit *)
UsageReset(r) ==
  /\ req[r].op = "usage" /\ req[r].pc = "reset"
  /\ orgData' = [orgData EXCEPT ![req[r].org].current.aiQueries = 0,
                                ![req[r].org].aiQueriesResetAt = req[r].now]
  /\ req' = [req EXCEPT ![r].pc = "increment"]
  /\ UNCHANGED <<authVars, resp, rateLimitStore, registry, patients, allowedAt, usageLedger>>

UsageIncrement_WritesStaleSum(r) ==
  /\ req[r].op = "usage" /\ req[r].pc = "increment"
  /\ orgData' = [orgData EXCEPT ![req[r].org].current[req[r].type] =
                    req[r].current + req[r].amount]
  /\ usageLedger' = [usageLedger EXCEPT ![req[r].org][req[r].type] = @ + req[r].amount]
  /\ Return(r, "usage", 200, "pass", "none")
  /\ UNCHANGED <<authVars, rateLimitStore, registry, patients, allowedAt>>

(* incrementUsage: the stored counter is raised by amount in one statement; *)
(* status 200 stands for the null that lets the caller go on                 *)
UsageIncrement(r) ==
  /\ req[r].op = "usage" /\ req[r].pc = "increment"
  /\ orgData' = [orgData EXCEPT ![req[r].org].current[req[r].type] = @ + req[r].amount]
  /\ usageLedger' = [usageLedger EXCEPT ![req[r].org][req[r].type] = @ + req[r].amount]
  /\ Return(r, "usage", 200, "pass", "none")
  /\ UNCHANGED <<authVars, rateLimitStore, registry, patients, allowedAt>>

(* decrementUsage: the stored counter is lowered by amount in one statement, *)
(* whatever its value                                                         *)
decrementUsage(organizationId, type, amount) ==
  /\ orgData' = [orgData EXCEPT ![organizationId].current[type] = @ - amount]
  /\ usageLedger' = [usageLedger EXCEPT ![organizationId][type] = @ - amount]
  /\ resp' = [op |-> "decrement_usage", status |-> 200, reason |-> type, event |-> "none"]
  /\ UNCHANGED <<authVars, req, rateLimitStore, registry, patients, allowedAt>>

(* ---------------- clock and environment ---------------- *)
Tick(d) ==
  /\ IF d = Quantum THEN now >= Jump \/ now + Quantum <= MaxQuanta * Quantum
                    ELSE now < Jump
  /\ now' = now + d
  /\ UNCHANGED <<users, orgs, tenantVars, sessions, req, resp, tokensIssued, consecFails, refused>>

(* an administrator deactivates or reactivates a user directly in the store *)
AdminSetActive(u, b) ==
  /\ users[u].isActive # b
  /\ users' = [users EXCEPT ![u].isActive = b]
  /\ UNCHANGED <<now, orgs, tenantVars, sessions, req, resp, tokensIssued, consecFails, refused>>

(* ---------------- specifications ---------------- *)
AllFree == \A q \in Slots : Free(q)

(* the lockout guard under concurrent login requests *)
NextLockout ==
  \/ \E r \in Slots, in \in LockoutInputs : LoginStart(r, in[1], in[2])
  \/ \E r \in Slots : LoginVerify(r)
  \/ \E r \in Slots : LoginUpdateUser(r)
  \/ Tick(Quantum)

SpecLockout == InitLockout /\ [][NextLockout]_vars

(* the same requests processed one after another *)
NextLockoutSeq ==
  \/ \E r \in Slots, in \in LockoutInputs : AllFree /\ LoginStart(r, in[1], in[2])
  \/ \E r \in Slots : LoginVerify(r)
  \/ \E r \in Slots : LoginUpdateUser(r)
  \/ Tick(Quantum)

SpecLockoutSeq == InitLockout /\ [][NextLockoutSeq]_vars

(* the session specifications start from two active users, and their     *)
(* logins carry the user's current password                                *)
InitSession ==
  /\ InitCommon
  /\ users = [u \in Users |-> InitialUser(u, TRUE)]
  /\ orgs = [o \in Orgs |-> ActiveOrg]

(* in the session specifications the clock first passes the lifetime of a *)
(* refresh token and then moves one quantum past it                        *)
SessionTick ==
  \/ now < Jump /\ Tick(Jump)
  \/ now = Jump /\ Tick(Quantum)

(* refused collects the sessions a refresh was refused for because the   *)
(* row was invalid, expired or owned by an inactive user                   *)
RefreshStartNoted(r, cookieToken, bodyToken) ==
  /\ RefreshStart(r, cookieToken, bodyToken)
  /\ refused' = IF RefreshCheck(Presented(cookieToken, bodyToken)) \in {"invalid", "inactive"}
                THEN refused \cup {Presented(cookieToken, bodyToken)}
                ELSE refused

RefreshExpireNoted(r) ==
  /\ RefreshExpire(r)
  /\ refused' = refused \cup {req[r].sid}

(* refresh of one user's sessions against logout, expiry and deactivation *)
NextRefresh ==
  \/ \E r \in Slots :
       /\ Len(sessions) + InFlightLogins < MaxRefreshSessions
       /\ LoginStart(r, "u1", users["u1"].password)
  \/ \E r \in Slots : LoginVerify(r)
  \/ \E r \in Slots : LoginUpdateUser(r)
  \/ \E r \in Slots, in \in RefreshInputs : RefreshStartNoted(r, in[1], in[2])
  \/ \E r \in Slots : RefreshExpireNoted(r)
  \/ \E r \in Slots : RefreshUpdate(r) /\ UNCHANGED refused
  \/ \E r \in Slots, t \in AccessTokens, c \in RefreshTokens : Logout(r, t, c)
  \/ \E b \in BOOLEAN : AdminSetActive("u1", b)
  \/ SessionTick

SpecRefresh == InitSession /\ [][NextRefresh]_vars

(* every handler that writes a session row, on the sessions of one user; *)
(* callers present tokens that were issued, the current password and a    *)
(* fixed new password                                                      *)
NextSession ==
  \/ \E r \in Slots :
       /\ Len(sessions) + InFlightLogins < MaxRefreshSessions
       /\ LoginStart(r, "u1", users["u1"].password)
  \/ \E r \in Slots : LoginVerify(r)
  \/ \E r \in Slots : LoginUpdateUser(r)
  \/ \E r \in Slots, c \in IssuedTokens : RefreshStart(r, c, NoToken) /\ UNCHANGED refused
  \/ \E r \in Slots : RefreshExpire(r) /\ UNCHANGED refused
  \/ \E r \in Slots : RefreshUpdate(r) /\ UNCHANGED refused
  \/ \E r \in Slots, t \in IssuedTokens, c \in RefreshTokens : Logout(r, t, c)
  \/ \E r \in Slots, t \in IssuedTokens : LogoutAll(r, t)
  \/ \E r \in Slots, t \in IssuedTokens, c \in RefreshTokens :
       ChangePasswordStart(r, t, c, users["u1"].password, "pwB")
  \/ \E r \in Slots : ChangePasswordSessions(r)
  \/ \E r \in Slots : ForgotPassword(r, "u1")
  \/ \E r \in Slots, k \in 1..tokensIssued : ResetPasswordStart(r, k, "pwB")
  \/ \E r \in Slots : ResetPasswordUpdate(r)
  \/ \E r \in Slots : ResetPasswordSessions(r)
  \/ SessionTick

SpecSession == InitSession /\ [][NextSession]_vars

(* the password handlers on the sessions of two users *)
NextPassword ==
  \/ \E r \in Slots, u \in Users : LoginStart(r, u, users[u].password)
  \/ \E r \in Slots : LoginVerify(r)
  \/ \E r \in Slots : LoginUpdateUser(r)
  \/ \E r \in Slots, t \in IssuedTokens, c \in RefreshTokens :
       ChangePasswordStart(r, t, c, users[sessions[t].userId].password, "pwB")
  \/ \E r \in Slots : ChangePasswordSessions(r)
  \/ \E r \in Slots, e \in Users : ForgotPassword(r, e)
  \/ \E r \in Slots, k \in 1..tokensIssued : ResetPasswordStart(r, k, "pwB")
  \/ \E r \in Slots : ResetPasswordUpdate(r)
  \/ \E r \in Slots : ResetPasswordSessions(r)

SpecPassword == InitSession /\ [][NextPassword]_vars

(* logout on the sessions of two users, with any access token and cookie *)
NextLogout ==
  \/ \E r \in Slots, u \in Users : LoginStart(r, u, users[u].password)
  \/ \E r \in Slots : LoginVerify(r)
  \/ \E r \in Slots : LoginUpdateUser(r)
  \/ \E r \in Slots, t \in AccessTokens, c \in RefreshTokens : Logout(r, t, c)

SpecLogout == InitSession /\ [][NextLogout]_vars

(* logout-all on the sessions of two users, with any access token *)
NextLogoutAll ==
  \/ \E r \in Slots, u \in Users : LoginStart(r, u, users[u].password)
  \/ \E r \in Slots : LoginVerify(r)
  \/ \E r \in Slots : LoginUpdateUser(r)
  \/ \E r \in Slots, t \in AccessTokens : LogoutAll(r, t)

SpecLogoutAll == InitSession /\ [][NextLogoutAll]_vars

(* logout with any credentials, also when the session update fails *)
NextLogoutFaults ==
  \/ \E r \in Slots, u \in Users : LoginStart(r, u, users[u].password)
  \/ \E r \in Slots : LoginVerify(r)
  \/ \E r \in Slots : LoginUpdateUser(r)
  \/ \E r \in Slots, t \in AccessTokens, c \in RefreshTokens : Logout(r, t, c)
  \/ \E r \in Slots, t \in AccessTokens, c \in RefreshTokens : LogoutFault(r, t, c)

SpecLogoutFaults == InitSession /\ [][NextLogoutFaults]_vars

(* every handler that touches the session table or creates accounts, on   *)
(* the sessions of u1                                                      *)
NextGrowth ==
  \/ \E r \in Slots : LoginStart(r, "u1", users["u1"].password)
  \/ \E r \in Slots : LoginVerify(r)
  \/ \E r \in Slots : LoginUpdateUser(r)
  \/ \E r \in Slots, c \in IssuedTokens : RefreshStart(r, c, NoToken) /\ UNCHANGED refused
  \/ \E r \in Slots : RefreshUpdate(r) /\ UNCHANGED refused
  \/ \E r \in Slots, t \in IssuedTokens : LogoutAll(r, t)
  \/ \E r \in Slots, t \in IssuedTokens :
       ChangePasswordStart(r, t, t, users["u1"].password, "pwB")
  \/ \E r \in Slots : ChangePasswordSessions(r)
  \/ \E r \in Slots : ForgotPassword(r, "u1")
  \/ \E r \in Slots, k \in 1..tokensIssued : ResetPasswordStart(r, k, "pwB")
  \/ \E r \in Slots : ResetPasswordUpdate(r)
  \/ \E r \in Slots : ResetPasswordSessions(r)
  \/ \E r \in Slots : RegisterStart(r, <<"e1", "s1", "t1">>)
  \/ \E r \in Slots : RegisterSubdomain(r)
  \/ \E r \in Slots : RegisterTcKimlikNo(r)
  \/ \E r \in Slots : RegisterTransaction(r)

SpecGrowth == InitLockout /\ [][NextGrowth]_vars

(* the organization handlers called by u1, whose role differs from world *)
(* to world, on both organizations; the calls are served one at a time    *)
InitOrganizations ==
  /\ InitCommon
  /\ orgs = [o \in Orgs |-> ActiveOrg]
  /\ \E role \in Roles :
       users = [u \in Users |->
                  IF u = "u1" THEN [InitialUser(u, TRUE) EXCEPT !.role = role]
                  ELSE InitialUser(u, TRUE)]

NextOrganizations ==
  \/ \E r \in Slots :
       /\ Len(sessions) + InFlightLogins < MaxRefreshSessions
       /\ LoginStart(r, "u1", users["u1"].password)
  \/ \E r \in Slots : LoginVerify(r)
  \/ \E r \in Slots : LoginUpdateUser(r)
  \/ \E r \in Slots, t \in IssuedTokens, ep \in Endpoints, o \in Orgs :
       AllFree /\ OrgStart(r, t, ep, o)
  \/ \E r \in Slots : OrgAccess(r)
  \/ \E r \in Slots, autoVerify \in BOOLEAN : OrgData(r, autoVerify)

SpecOrganizations == InitOrganizations /\ [][NextOrganizations]_vars

(* the patient handlers called concurrently by u1, whose role differs from *)
(* world to world; a patient is deleted while it is active                  *)
NextPatients ==
  \/ \E r \in Slots :
       /\ Len(sessions) + InFlightLogins < MaxRefreshSessions
       /\ LoginStart(r, "u1", users["u1"].password)
  \/ \E r \in Slots : LoginVerify(r)
  \/ \E r \in Slots : LoginUpdateUser(r)
  \/ \E r \in Slots, t \in IssuedTokens, m \in PatientMethods, id \in Patients :
       /\ m = "DELETE" => patients[id].isActive
       /\ PatientStart(r, t, m, id)
  \/ \E r \in Slots : PatientFind(r)
  \/ \E r \in Slots : PatientUpdate(r)

SpecPatients == InitOrganizations /\ [][NextPatients]_vars

(* login, refresh and an authenticated request of u1 while the clock runs *)
(* past the end of the trial of u1's organization                          *)
NextGate ==
  \/ \E r \in Slots :
       /\ Len(sessions) + InFlightLogins < MaxRefreshSessions
       /\ LoginStart(r, "u1", users["u1"].password)
  \/ \E r \in Slots : LoginVerify(r)
  \/ \E r \in Slots : LoginUpdateUser(r)
  \/ \E r \in Slots, c \in IssuedTokens : RefreshStart(r, c, NoToken) /\ UNCHANGED refused
  \/ \E r \in Slots : RefreshUpdate(r) /\ UNCHANGED refused
  \/ \E r \in Slots, t \in IssuedTokens : PatientStart(r, t, "LIST", "p1")
  \/ \E r \in Slots : PatientFind(r)
  \/ Tick(Quantum)

SpecGate == InitLockout /\ [][NextGate]_vars

Amounts == 1..MaxAmount

(* checkAndIncrementUsage called for o1, one call at a time, while months pass *)
NextUsageSeq ==
  \/ \E r \in Slots, type \in ResourceTypes, amount \in Amounts :
       AllFree /\ UsageCheck(r, "o1", type, amount)
  \/ \E r \in Slots : UsageReset(r)
  \/ \E r \in Slots : UsageIncrement(r)
  \/ SessionTick

SpecUsageSeq == InitSession /\ [][NextUsageSeq]_vars

(* concurrent calls of checkAndIncrementUsage for the users and the AI *)
(* queries of o1, while a month passes                                 *)
NextUsage ==
  \/ \E r \in Slots, type \in {"users", "aiQueries"}, amount \in Amounts :
       UsageCheck(r, "o1", type, amount)
  \/ \E r \in Slots : UsageReset(r)
  \/ \E r \in Slots : UsageIncrement(r)
  \/ now < Jump /\ Tick(Jump)

SpecUsage == InitSession /\ [][NextUsage]_vars

(* the statements of the transaction a fault can follow *)
FaultPoints == 0..3

(* concurrent registrations, with faults of the store *)
NextRegister ==
  \/ \E r \in Slots, in \in RegisterInputs : RegisterStart(r, in)
  \/ \E r \in Slots : RegisterSubdomain(r)
  \/ \E r \in Slots : RegisterTcKimlikNo(r)
  \/ \E r \in Slots : RegisterTransaction(r)
  \/ \E r \in Slots, done \in FaultPoints : RegisterFault(r, done)

SpecRegister == InitSession /\ [][NextRegister]_vars

(* forgot-password for the email of an active user, of an inactive user *)
(* and of nobody, from one client address                                *)
InitForgot ==
  /\ InitCommon
  /\ users = [u \in Users |-> InitialUser(u, u = "u1")]
  /\ orgs = [o \in Orgs |-> ActiveOrg]

NextForgot ==
  \/ \E r \in Slots, e \in Emails, f \in ForgotFaults : ForgotPasswordLimited(r, e, f)
  \/ \E r \in Slots, k \in 1..tokensIssued : ResetPasswordStart(r, k, "pwB")
  \/ \E r \in Slots : ResetPasswordUpdate(r)
  \/ \E r \in Slots : ResetPasswordSessions(r)
  \/ SessionTick

SpecForgot == InitForgot /\ [][NextForgot]_vars

(* the limit each key is called with *)
LimitOf(key) == IF key = "register" THEN 1 ELSE MaxLimit

HalfHour == HOUR \div 2

(* the clock of the rate limiter moves in halves of the window *)
RateTick ==
  /\ now + HalfHour <= MaxHalfHours * HalfHour
  /\ now' = now + HalfHour
  /\ UNCHANGED <<users, orgs, tenantVars, sessions, req, resp, tokensIssued, consecFails,
                 refused>>

(* calls of the rate limiter on two keys while the clock passes the end of *)
(* a window                                                                *)
NextRate ==
  \/ \E key \in RateKeys : ApplyRateLimit(key, LimitOf(key), HOUR)
  \/ RateTick

SpecRate == InitSession /\ [][NextRate]_vars

(* ---------------- the lockout guard: C1 - C4 ---------------- *)
WrongPasswordStep(r) ==
  /\ req[r].op = "login" /\ req[r].pc = "verify" /\ req'[r] # req[r]
  /\ req[r].password # req[r].user.password

GoodStanding(o) ==
  /\ orgs[o].status \notin {"SUSPENDED", "CANCELLED"}
  /\ ~(orgs[o].status = "TRIAL" /\ orgs[o].trialEndsAt # Null /\ now > orgs[o].trialEndsAt)

C1_FifthFailureLocks ==
  \A u \in Users :
    (consecFails[u] = MAX_LOGIN_ATTEMPTS - 1 /\ consecFails'[u] = MAX_LOGIN_ATTEMPTS)
      => users'[u].lockedUntil = now + LOCK_DURATION

C1_LockedIsRejected ==
  \A r \in Slots, in \in LoginInputs :
    (/\ in[1] # NoUser
     /\ users[in[1]].lockedUntil # Null /\ now < users[in[1]].lockedUntil
     /\ LoginStart(r, in[1], in[2]))
      => (resp'.status = 403 /\ sessions' = sessions /\ req'[r] = Idle /\ users' = users)

(* C1: when logins are processed one after another, the 5th consecutive     *)
(* wrong-password login sets lockedUntil to now + 15 minutes, after 5 such  *)
(* logins lockedUntil is set, and a login that arrives while                *)
(* now < lockedUntil is answered 403 and creates no session, whatever       *)
(* password it carries.                                                     *)
C1_LockAfterFiveFailures ==
  /\ [](\A u \in Users :
          consecFails[u] >= MAX_LOGIN_ATTEMPTS => users[u].lockedUntil # Null)
  /\ [][C1_FifthFailureLocks /\ C1_LockedIsRejected]_vars

C1_Witness ==
  /\ resp.op = "login" /\ resp.reason = "locked" /\ resp.status = 403
  /\ consecFails["u1"] = MAX_LOGIN_ATTEMPTS
  /\ users["u1"].failedLoginAttempts = MAX_LOGIN_ATTEMPTS
  /\ now > 0 /\ now < users["u1"].lockedUntil

(* C2: under any interleaving of login requests, every failed password      *)
(* check raises the stored failedLoginAttempts by exactly one, and a user   *)
(* who has had 5 wrong-password checks in a row has been locked.            *)
C2_NoFailedAttemptLost ==
  /\ [](\A u \in Users :
          consecFails[u] >= MAX_LOGIN_ATTEMPTS => users[u].lockedUntil # Null)
  /\ [][\A r \in Slots :
          WrongPasswordStep(r) =>
            users'[req[r].userId].failedLoginAttempts =
              users[req[r].userId].failedLoginAttempts + 1]_vars

C3_ExpiredLockAdmits ==
  \A r \in Slots, in \in LoginInputs :
    (/\ in[1] # NoUser
     /\ users[in[1]].lockedUntil # Null /\ users[in[1]].lockedUntil <= now
     /\ LoginStart(r, in[1], in[2]))
      => (req'[r].op = "login" /\ req'[r].pc = "verify")

C3_CorrectPasswordCreatesSession ==
  \A r \in Slots :
    (/\ req[r].op = "login" /\ req[r].pc = "verify" /\ req'[r] # req[r]
     /\ req[r].password = req[r].user.password
     /\ req[r].user.isActive
     /\ GoodStanding(req[r].user.organizationId))
      => (/\ Len(sessions') = Len(sessions) + 1
          /\ sessions'[Len(sessions')].userId = req[r].userId
          /\ sessions'[Len(sessions')].isValid
          /\ SubSeq(sessions', 1, Len(sessions)) = sessions
          /\ req'[r].pc = "update" /\ req'[r].sid = Len(sessions'))

C3_SuccessResets ==
  \A r \in Slots :
    (req[r].op = "login" /\ req[r].pc = "update" /\ req'[r] # req[r])
      => (/\ users'[req[r].userId].failedLoginAttempts = 0
          /\ users'[req[r].userId].lockedUntil = Null
          /\ resp'.status = 200 /\ resp'.reason = "ok")

(* C3: no sweep is needed to lift a lock: a login that arrives when         *)
(* lockedUntil <= now passes the lock check; with the correct password, an  *)
(* active user and an organization in good standing it creates a valid      *)
(* session, and its final update sets failedLoginAttempts to 0, clears      *)
(* lockedUntil and answers 200.                                             *)
C3_LockLiftedWithoutSweep ==
  [][C3_ExpiredLockAdmits /\ C3_CorrectPasswordCreatesSession /\ C3_SuccessResets]_vars

(* a login that found an expired lock has created its session and is about  *)
(* to clear the lock                                                        *)
C3_Witness ==
  \E r \in Slots :
    /\ req[r].op = "login" /\ req[r].pc = "update"
    /\ users[req[r].userId].lockedUntil # Null
    /\ users[req[r].userId].lockedUntil <= now
    /\ users[req[r].userId].failedLoginAttempts >= MAX_LOGIN_ATTEMPTS
    /\ sessions[req[r].sid].isValid

(* C4: failedLoginAttempts is lowered and lockedUntil is cleared only by    *)
(* the final update of a login that succeeds.                               *)
C4_OnlySuccessfulLoginResets ==
  [][\A u \in Users :
       (\/ users'[u].failedLoginAttempts < users[u].failedLoginAttempts
        \/ (users[u].lockedUntil # Null /\ users'[u].lockedUntil = Null))
         => (\E r \in Slots :
               /\ req[r].op = "login" /\ req[r].pc = "update" /\ req[r].userId = u
               /\ req'[r] = Idle /\ resp'.status = 200)]_vars

(* ---------------- the session manager: C5 - C10 ---------------- *)
(* the refresh request accepted by worker r in this step got a new access  *)
(* token minted for session req'[r].sid                                     *)
Minted(r) == Free(r) /\ req'[r].op = "refresh" /\ req'[r].pc = "update"

(* worker r answers in this step *)
Answers(r, op) == req[r].op = op /\ req'[r] = Idle

(* worker r takes a refresh request in this step *)
RefreshTaken(r) ==
  Free(r) /\ (req'[r].op = "refresh" \/ (req'[r] = Idle /\ resp'.op = "refresh"))

Exists(i) == i \in 1..Len(sessions)

OwnerActive(i) == users[sessions[i].userId].isActive

C5_MintsOnlyUnexpired ==
  \A r \in Slots :
    Minted(r) =>
      LET i == req'[r].sid IN
        /\ Exists(i) /\ sessions[i].isValid /\ OwnerActive(i)
        /\ sessions[i].expiresAt > now

C5_ElseUnauthorized ==
  \A r \in Slots : RefreshTaken(r) =>
   \A in \in RefreshInputs :
    LET i == Presented(in[1], in[2]) IN
    (/\ RefreshStart(r, in[1], in[2])
     /\ ~(Exists(i) /\ sessions[i].isValid /\ OwnerActive(i) /\ sessions[i].expiresAt > now))
      => (/\ ~Minted(r)
          /\ \/ req'[r] = Idle /\ resp'.op = "refresh" /\ resp'.status = 401
             \/ req'[r].pc = "expire")

(* C5 as stated: a refresh mints an access token only for an existing,      *)
(* valid session of an active user whose expiresAt is after now, and every  *)
(* other refresh is answered 401 without a token.                           *)
C5_TokenOnlyBeforeExpiry ==
  [][C5_MintsOnlyUnexpired /\ C5_ElseUnauthorized]_vars

C5_MintsOnlyUsable ==
  \A r \in Slots :
    Minted(r) =>
      LET i == req'[r].sid IN
        /\ Exists(i) /\ sessions[i].isValid /\ OwnerActive(i)
        /\ sessions[i].expiresAt >= now
        /\ req'[r].accessToken.userId = sessions[i].userId
        /\ req'[r].accessToken.iat = now

C5_UnusableUnauthorized ==
  \A r \in Slots : RefreshTaken(r) =>
   \A in \in RefreshInputs :
    LET i == Presented(in[1], in[2]) IN
    RefreshStart(r, in[1], in[2]) =>
      IF Exists(i) /\ sessions[i].isValid /\ OwnerActive(i) /\ sessions[i].expiresAt >= now
      THEN Minted(r) /\ req'[r].sid = i
      ELSE /\ ~Minted(r)
           /\ sessions' = sessions
           /\ \/ req'[r] = Idle /\ resp'.op = "refresh" /\ resp'.status = 401
              \/ req'[r].op = "refresh" /\ req'[r].pc = "expire"

C5_AnswersFollow ==
  \A r \in Slots :
    /\ (req[r].op = "refresh" /\ req[r].pc = "expire" /\ req'[r] # req[r])
         => (req'[r] = Idle /\ resp'.op = "refresh" /\ resp'.status = 401)
    /\ (req[r].op = "refresh" /\ req[r].pc = "update" /\ req'[r] # req[r])
         => (/\ req'[r] = Idle /\ resp'.op = "refresh" /\ resp'.status = 200
             /\ sessions'[req[r].sid].accessToken = req[r].accessToken)

(* C5, amended: a refresh mints (and then returns with 200) an access token *)
(* exactly when the presented token names an existing session that is       *)
(* valid, whose owner is active and whose expiresAt is not before now; a    *)
(* session is still refreshed at the instant of its expiresAt.  Every other *)
(* refresh mints nothing and is answered 401.                               *)
C5_TokenOnlyForUsableSession ==
  [][C5_MintsOnlyUsable /\ C5_UnusableUnauthorized /\ C5_AnswersFollow]_vars

(* a token has been minted for a session at the very instant it expires *)
C5_Witness ==
  \E r \in Slots :
    /\ req[r].op = "refresh" /\ req[r].pc = "update"
    /\ req[r].accessToken.iat = sessions[req[r].sid].expiresAt
    /\ now = sessions[req[r].sid].expiresAt

C6_InvalidStaysInvalid ==
  \A i \in 1..Len(sessions) :
    /\ i <= Len(sessions')
    /\ sessions'[i].userId = sessions[i].userId
    /\ ~sessions[i].isValid => ~sessions'[i].isValid

C6_NoRefreshOfInvalid ==
  \A r \in Slots : Minted(r) => sessions[req'[r].sid].isValid

C6_OnlyLoginAddsSession ==
  Len(sessions') # Len(sessions) =>
    /\ Len(sessions') = Len(sessions) + 1
    /\ sessions'[Len(sessions')].isValid
    /\ \E r \in Slots :
         /\ req[r].op = "login" /\ req[r].pc = "verify"
         /\ req[r].password = req[r].user.password
         /\ req'[r].op = "login" /\ req'[r].pc = "update"
         /\ req'[r].sid = Len(sessions')
         /\ sessions'[Len(sessions')].userId = req[r].userId

C7_RefusalIsTerminal ==
  [][\A r \in Slots : Minted(r) => req'[r].sid \notin refused]_vars

C8_ExpiredIsRefused ==
  \A r \in Slots : RefreshTaken(r) =>
   \A in \in RefreshInputs :
    LET i == Presented(in[1], in[2]) IN
    (RefreshStart(r, in[1], in[2]) /\ Exists(i) /\ sessions[i].expiresAt < now)
      => /\ ~Minted(r)
         /\ IF sessions[i].isValid
            THEN req'[r].op = "refresh" /\ req'[r].pc = "expire" /\ req'[r].sid = i
            ELSE /\ req'[r] = Idle /\ resp'.op = "refresh" /\ resp'.status = 401
                 /\ sessions' = sessions

C8_ExpiryInvalidates ==
  \A r \in Slots :
    (req[r].op = "refresh" /\ req[r].pc = "expire" /\ req'[r] # req[r])
      => /\ req'[r] = Idle /\ resp'.op = "refresh" /\ resp'.status = 401
         /\ ~sessions'[req[r].sid].isValid
         /\ \A j \in 1..Len(sessions) : j # req[r].sid => sessions'[j] = sessions[j]

C8_ExpiredStaysInvalid ==
  \A i \in 1..Len(sessions) :
    (sessions[i].expiresAt < now /\ ~sessions[i].isValid)
      => (~sessions'[i].isValid /\ sessions'[i].expiresAt < now')

(* C8: a refresh that presents a valid session whose expiresAt is before    *)
(* now mints nothing, sets isValid of that session (and of no other) to     *)
(* false and answers 401; afterwards the session stays invalid and expired, *)
(* and every refresh of it is answered 401 and changes no session.          *)
C8_ExpiredRefreshInvalidates ==
  [][C8_ExpiredIsRefused /\ C8_ExpiryInvalidates /\ C8_ExpiredStaysInvalid]_vars

(* an expired session was refreshed, marked invalid, and refreshed again *)
C8_Witness ==
  /\ resp.op = "refresh" /\ resp.status = 401 /\ resp.reason = "invalid"
  /\ \E i \in refused : sessions[i].expiresAt < now /\ ~sessions[i].isValid

C9_ChangePasswordKeepsCookieSession ==
  \A r \in Slots :
    (Answers(r, "change_password") /\ req[r].pc = "sessions")
      => /\ resp'.op = "change_password" /\ resp'.status = 200
         /\ Len(sessions') = Len(sessions)
         /\ \A i \in 1..Len(sessions) :
              IF sessions[i].userId # req[r].userId THEN sessions'[i] = sessions[i]
              ELSE IF i = req[r].currentRefreshToken THEN sessions'[i] = sessions[i]
              ELSE /\ ~sessions'[i].isValid
                   /\ sessions'[i] = [sessions[i] EXCEPT !.isValid = FALSE]

C9_ResetPasswordSparesNone ==
  \A r \in Slots :
    (Answers(r, "reset_password") /\ req[r].pc = "sessions")
      => /\ resp'.op = "reset_password" /\ resp'.status = 200
         /\ Len(sessions') = Len(sessions)
         /\ \A i \in 1..Len(sessions) :
              IF sessions[i].userId # req[r].userId THEN sessions'[i] = sessions[i]
              ELSE sessions'[i] = [sessions[i] EXCEPT !.isValid = FALSE]

C9_FailedAttemptsTouchNothing ==
  (resp' # resp /\ resp'.op \in {"change_password", "reset_password"}
     /\ resp'.status # 200)
    => sessions' = sessions

(* C9: the session update of a change-password that passed its checks sets  *)
(* isValid to false on every session of the caller except the one whose     *)
(* refresh token is the cookie the request carried (on all of them when it  *)
(* carried none), the session update of a reset-password sets it to false   *)
(* on every session of the user, both answer 200, and both leave the        *)
(* sessions of every other user as they were; a change-password or          *)
(* reset-password that is refused changes no session.                       *)
C9_PasswordChangeInvalidatesSessions ==
  [][/\ C9_ChangePasswordKeepsCookieSession
     /\ C9_ResetPasswordSparesNone
     /\ C9_FailedAttemptsTouchNothing]_vars

(* no reset was ever requested; after a change-password the caller holds   *)
(* the session of the cookie and has lost another one                       *)
C9_Witness ==
  /\ resp.op = "change_password" /\ resp.status = 200
  /\ \E i, j \in 1..Len(sessions) :
       /\ sessions[i].userId = sessions[j].userId
       /\ sessions[i].isValid /\ ~sessions[j].isValid
       /\ users[sessions[i].userId].password = "pwB"
  /\ tokensIssued = 0

C10_LogoutInvalidatesOwnSession ==
  \A r \in Slots, t \in AccessTokens, c \in RefreshTokens :
    (Logout(r, t, c) /\ requireAuth(t) # NoUser)
      => /\ resp'.op = "logout" /\ resp'.status = 200
         /\ Len(sessions') = Len(sessions)
         /\ \A i \in 1..Len(sessions) :
              IF i = c /\ sessions[i].userId = requireAuth(t)
              THEN sessions'[i] = [sessions[i] EXCEPT !.isValid = FALSE]
              ELSE sessions'[i] = sessions[i]

C10_RepeatChangesNothing ==
  \A r \in Slots, t \in AccessTokens, c \in RefreshTokens :
    (Logout(r, t, c) /\ (c \notin 1..Len(sessions) \/ ~sessions[c].isValid))
      => sessions' = sessions

(* C10: a logout by an authenticated caller answers 200 and sets isValid to *)
(* false on the session whose refresh token is the cookie, if that session  *)
(* belongs to the caller; every other session, another user's session      *)
(* whose token the caller presents included, is left as it was; without a   *)
(* cookie, without a matching session, or when the session is already       *)
(* invalid, no session changes.                                             *)
C10_LogoutFrame ==
  [][C10_LogoutInvalidatesOwnSession /\ C10_RepeatChangesNothing]_vars

(* a logout has invalidated one user's session next to a valid session of  *)
(* the other user                                                           *)
C10_Witness ==
  /\ resp.op = "logout" /\ resp.status = 200
  /\ \E i, j \in 1..Len(sessions) :
       /\ sessions[i].userId # sessions[j].userId
       /\ ~sessions[i].isValid /\ sessions[j].isValid

(* ---------------- C11 - C20 ---------------- *)
(* C11: a logout-all by an authenticated caller answers 200 and leaves      *)
(* every session of the caller, the one the request came from included,    *)
(* with isValid = false and otherwise as it was; the sessions of every      *)
(* other user are unchanged and no session is added or removed.             *)
C11_LogoutAllSparesNone ==
  [][\A r \in Slots, t \in AccessTokens :
       (LogoutAll(r, t) /\ requireAuth(t) # NoUser)
         => /\ resp'.op = "logout_all" /\ resp'.status = 200
            /\ Len(sessions') = Len(sessions)
            /\ \A i \in 1..Len(sessions) :
                 IF sessions[i].userId = requireAuth(t)
                 THEN /\ ~sessions'[i].isValid
                      /\ sessions'[i] = [sessions[i] EXCEPT !.isValid = FALSE]
                 ELSE sessions'[i] = sessions[i]]_vars

(* a logout-all has left its caller with two sessions, both invalid *)
C11_Witness ==
  /\ resp.op = "logout_all" /\ resp.status = 200
  /\ \E i, j \in 1..Len(sessions) :
       /\ i # j /\ sessions[i].userId = sessions[j].userId
       /\ ~sessions[i].isValid /\ ~sessions[j].isValid

(* C12: every response of POST /auth/logout deletes both the accessToken    *)
(* and the refreshToken cookie.                                             *)
C12_LogoutAlwaysClearsCookies ==
  resp.op = "logout" => resp.deleted = {"accessToken", "refreshToken"}

(* the login in slot r is at its password check and passes every check *)
PassesEveryCheck(r) ==
  /\ req[r].op = "login" /\ req[r].pc = "verify"
  /\ compare(req[r].password, req[r].user.password)
  /\ LoginGate(r) = "ok"

C13_NoRowRemoved ==
  /\ Len(sessions') >= Len(sessions)
  /\ \A i \in 1..Len(sessions) :
       /\ sessions'[i].userId = sessions[i].userId
       /\ sessions'[i].accessToken = sessions[i].accessToken

C13_OnlyPassingLoginAdds ==
  Len(sessions') > Len(sessions) =>
    \E r \in Slots :
      /\ PassesEveryCheck(r)
      /\ req'[r].op = "login" /\ req'[r].pc = "update"
      /\ sessions' = Append(sessions, sessions'[Len(sessions')])
      /\ sessions'[Len(sessions')].isValid
      /\ sessions'[Len(sessions')].userId = req[r].userId

C13_OthersCreateNone ==
  \A r \in Slots :
    (\/ req[r].op \in {"register", "refresh", "change_password", "reset_password"}
     \/ req'[r].op \in {"register", "refresh", "change_password", "reset_password"}
     \/ resp'.op \in {"register", "refresh", "change_password", "reset_password"}
          /\ resp' # resp)
      => (req'[r] # req[r] => Len(sessions') = Len(sessions))

Outsider(u, o) == users[u].role # "SUPER_ADMIN" /\ users[u].organizationId # o

C14_OutsiderStopsAtStart ==
  \A r \in Slots, t \in IssuedTokens, ep \in Endpoints, o \in Orgs :
    (OrgStart(r, t, ep, o) /\ requireAuth(t) # NoUser /\ Outsider(requireAuth(t), o))
      => /\ orgData' = orgData
         /\ \/ req'[r].pc = "access" /\ resp' = resp
            \/ req'[r] = Idle /\ resp'.status = 403 /\ resp'.org = Null

C14_OutsiderIsRefused ==
  \A r \in Slots :
    (req[r].op = "organizations" /\ req'[r] # req[r]
       /\ Outsider(req[r].userId, req[r].org))
      => /\ req[r].pc = "access"
         /\ req'[r] = Idle
         /\ resp'.op = "organizations" /\ resp'.status = 403 /\ resp'.org = Null
         /\ orgData' = orgData

C14_SuperAdminIsAdmitted ==
  \A r \in Slots :
    (OrgAccess(r) /\ users[req[r].userId].role = "SUPER_ADMIN")
      => req'[r].pc = "data" /\ req'[r].org = req[r].org

C14_RowsOfThePathOnly ==
  \A r \in Slots, o \in Orgs :
    (req[r].op = "organizations" /\ req'[r] # req[r] /\ o # req[r].org)
      => orgData'[o] = orgData[o]

(* C14: in the handlers for settings, branding, domain, domain verify and  *)
(* users, a caller whose stored role is not SUPER_ADMIN and whose stored    *)
(* organizationId is not the organization of the path is answered 403       *)
(* before any row of that organization is read or written; a SUPER_ADMIN    *)
(* passes requireOrganizationAccess for every organization.                 *)
C14_TenantIsolation ==
  [][/\ C14_OutsiderStopsAtStart /\ C14_OutsiderIsRefused
     /\ C14_SuperAdminIsAdmitted /\ C14_RowsOfThePathOnly]_vars

(* an owner of o1 was refused on o2 after changing the settings of o1 *)
C14_Witness ==
  /\ resp.op = "organizations" /\ resp.status = 403 /\ resp.reason = "no_access"
  /\ users["u1"].role = "ORGANIZATION_OWNER"
  /\ orgData["o1"].settings = "patched"
  /\ orgData["o2"].settings = "default"

(* a SUPER_ADMIN of o1 changed the settings of o2 *)
C14_WitnessSuperAdmin ==
  /\ users["u1"].role = "SUPER_ADMIN" /\ users["u1"].organizationId = "o1"
  /\ resp.op = "organizations" /\ resp.status = 200 /\ resp.org = "o2"
  /\ orgData["o2"].settings = "patched"

(* patient p is within reach of the caller of request r: it is in the      *)
(* caller's stored organization and, for a DIETITIAN, it is the caller's    *)
InReach(r, p) ==
  LET caller == users[req[r].user.id] IN
  /\ patients[p].organizationId = caller.organizationId
  /\ (caller.role = "DIETITIAN" => patients[p].dietitianId = req[r].user.id)

C15_ReturnsOnlyInReach ==
  \A r \in Slots :
    (req[r].op = "patients" /\ req'[r] = Idle /\ resp'.op = "patients")
      => \A p \in resp'.rows : InReach(r, p)

C15_ChangesOnlyInReach ==
  \A r \in Slots :
    (req[r].op = "patients" /\ req'[r] # req[r])
      => \A p \in Patients : patients'[p] # patients[p] => p = req[r].id /\ InReach(r, p)

C15_ForeignIdIsNotFound ==
  \A r \in Slots :
    (PatientFind(r) /\ req[r].method # "LIST"
       /\ patients[req[r].id].organizationId # users[req[r].user.id].organizationId)
      => resp'.status = 404 /\ resp'.rows = {} /\ patients' = patients /\ req'[r] = Idle

C15_OnlyPatientHandlersWrite ==
  patients' # patients => \E r \in Slots : req[r].op = "patients" /\ req'[r] # req[r]

(* C15: every patient row that a patient handler returns or changes for a *)
(* caller is in the caller's stored organization, and is the caller's own  *)
(* patient when the caller is a DIETITIAN; the id of a patient of another  *)
(* organization is answered 404 and changes nothing.                       *)
C15_PatientsStayInTenant ==
  [][/\ C15_ReturnsOnlyInReach /\ C15_ChangesOnlyInReach
     /\ C15_ForeignIdIsNotFound /\ C15_OnlyPatientHandlersWrite]_vars

(* the id of a patient of the other organization was answered 404 after a *)
(* patient of the caller's organization was changed                        *)
C15_Witness ==
  /\ resp.op = "patients" /\ resp.status = 404
  /\ \E p \in Patients : patients[p] # InitialPatient(p)
  /\ patients["p3"] = InitialPatient("p3")

(* a DIETITIAN listed the patients and got the one of their own *)
C15_WitnessDietitian ==
  /\ users["u1"].role = "DIETITIAN"
  /\ resp.op = "patients" /\ resp.status = 200 /\ resp.rows = {"p1"}
  /\ patients["p1"].notes = "n1" /\ patients["p2"].notes = "n0"

(* the organization of user u is SUSPENDED, CANCELLED or past its trial *)
Gated(u) == ~GoodStanding(users[u].organizationId)

C16_LoginIsRejected ==
  \A r \in Slots :
    (req[r].op = "login" /\ req[r].pc = "verify" /\ req'[r] # req[r] /\ Gated(req[r].userId))
      => sessions' = sessions /\ req'[r] = Idle /\ resp'.status \in {401, 403}

C16_RefreshMintsNothing ==
  \A r \in Slots : Minted(r) => ~Gated(sessions[req'[r].sid].userId)

C16_TokenIsNotAccepted ==
  \A t \in IssuedTokens : Gated(sessions[t].userId) => requireAuth(t) = NoUser

(* C16: while the organization of a user is SUSPENDED, CANCELLED or TRIAL  *)
(* past trialEndsAt, a login of that user is rejected, a refresh of that    *)
(* user's session mints no access token and requireAuth accepts none of     *)
(* that user's access tokens.                                               *)
C16_StatusGatesAllAccess ==
  [][C16_LoginIsRejected /\ C16_RefreshMintsNothing /\ C16_TokenIsNotAccepted]_vars

C17_ExceededChangesNothing ==
  \A r \in Slots, type \in ResourceTypes, amount \in Amounts :
    (/\ UsageCheck(r, "o1", type, amount)
     /\ orgData["o1"].current[type] >= orgData["o1"].max[type])
      => req'[r] = Idle /\ resp'.op = "usage" /\ resp'.status = 403 /\ orgData' = orgData

C17_BelowMaxAddsAmount ==
  \A r \in Slots :
    (UsageIncrement(r) /\ req[r].current < orgData[req[r].org].max[req[r].type])
      => orgData'[req[r].org].current[req[r].type] = req[r].current + req[r].amount

C17_NeverAboveMax ==
  \A r \in Slots :
    UsageIncrement(r)
      => orgData'[req[r].org].current[req[r].type] <= orgData[req[r].org].max[req[r].type]

(* C17: one call of checkAndIncrementUsage with no other call in flight,   *)
(* for each resource type and each amount >= 1: if the counter it finds is  *)
(* at or above max it answers 403 and changes nothing; if the counter is    *)
(* below max it leaves the counter at that value plus amount; and it never  *)
(* leaves the counter above max.                                            *)
C17_CheckAndIncrementInIsolation ==
  [][C17_ExceededChangesNothing /\ C17_BelowMaxAddsAmount /\ C17_NeverAboveMax]_vars

RECURSIVE SumAmounts(_, _)
(* the sum of the amounts of the calls in the slots S that passed the check *)
(* for type and have not incremented yet                                     *)
SumAmounts(S, type) ==
  IF S = {} THEN 0
  ELSE LET r == CHOOSE q \in S : TRUE
           a == IF req[r].op = "usage" /\ req[r].pc = "increment" /\ req[r].type = type
                THEN req[r].amount ELSE 0
       IN a + SumAmounts(S \ {r}, type)

(* the largest sum of the amounts of the calls that can be in flight at once *)
MaxInFlight == Cardinality(Slots) * MaxAmount

C18_PassesOnlyBelowMax ==
  \A r \in Slots :
    (Free(r) /\ req'[r].op = "usage" /\ req'[r].pc = "increment")
      => orgData[req'[r].org].current[req'[r].type] < orgData[req'[r].org].max[req'[r].type]

C18_GrowsOnlyByIncrement ==
  \A type \in ResourceTypes :
    orgData'["o1"].current[type] > orgData["o1"].current[type]
      => \E r \in Slots :
           /\ req[r].op = "usage" /\ req[r].pc = "increment" /\ req[r].type = type
           /\ req'[r] = Idle
           /\ orgData'["o1"].current[type] = orgData["o1"].current[type] + req[r].amount

C18_OvershootWithinInFlight ==
  \A type \in ResourceTypes :
    /\ orgData'["o1"].current[type] + SumAmounts(Slots, type)'
         <= orgData'["o1"].max[type] - 1 + MaxInFlight
    /\ orgData'["o1"].current[type] >= orgData'["o1"].max[type]
         => orgData'["o1"].current[type] + SumAmounts(Slots, type)'
              <= orgData["o1"].current[type] + SumAmounts(Slots, type)

(* C18: the usage limit is soft under concurrency: a call passes the check *)
(* only when the stored counter is below max, the counter rises only by the *)
(* amount of a call that passed, and once the counter is at or above max it *)
(* rises by no more than the amounts of the calls already past the check,   *)
(* so it never exceeds max - 1 plus the amounts of the calls in flight.     *)
C18_SoftLimitUnderConcurrency ==
  [][C18_PassesOnlyBelowMax /\ C18_GrowsOnlyByIncrement /\ C18_OvershootWithinInFlight]_vars

(* two calls for one user each both passed the check at current = max - 1; *)
(* one has incremented, the increment of the other leads to max + 1         *)
C18_Witness ==
  \E r \in Slots :
    /\ req[r].op = "usage" /\ req[r].pc = "increment" /\ req[r].type = "users"
    /\ req[r].amount = 1
    /\ req[r].current = orgData["o1"].max.users - 1
    /\ orgData["o1"].current.users = orgData["o1"].max.users

(* the counter of users is one above max *)
C18_WitnessOvershoot ==
  /\ orgData["o1"].current.users = orgData["o1"].max.users + 1
  /\ AllFree

(* organization o was registered completely: settings, owner and consent *)
Complete(o) ==
  /\ o.id \in registry.settings
  /\ \E u \in registry.users :
       /\ u.organizationId = o.id /\ u.role = "ORGANIZATION_OWNER"
       /\ u.id \in registry.consents

C19_NoPartialRegistration ==
  /\ \A o \in registry.organizations : Complete(o)
  /\ \A u \in registry.users : \E o \in registry.organizations : o.id = u.organizationId
  /\ \A s \in registry.settings : \E o \in registry.organizations : o.id = s
  /\ \A c \in registry.consents : \E u \in registry.users : u.id = c

C19_Unique ==
  /\ \A o1, o2 \in registry.organizations :
       o1.subdomain = o2.subdomain => o1 = o2
  /\ \A o \in registry.organizations : o.subdomain \notin Orgs
  /\ \A u1, u2 \in registry.users :
       (u1.email = u2.email \/ u1.tcKimlikNo = u2.tcKimlikNo) => u1 = u2
  /\ \A u \in registry.users : u.email \notin Users

C19_FailurePersistsNothing ==
  registry' # registry =>
    \E r \in Slots :
      /\ req[r].op = "register" /\ req[r].pc = "transaction" /\ req'[r] = Idle
      /\ resp'.op = "register" /\ resp'.status = 201
      /\ Cardinality(registry'.organizations) = Cardinality(registry.organizations) + 1
      /\ Cardinality(registry'.users) = Cardinality(registry.users) + 1
      /\ \E o \in registry'.organizations \ registry.organizations :
           o.subdomain = req[r].subdomain

(* C19: a registration that does not answer 201 (a 409 from a lookup or    *)
(* from a unique index inside the transaction, a 429, or a fault) leaves    *)
(* the organization, settings, user and consent tables as they were; every  *)
(* registered organization has its settings, its ORGANIZATION_OWNER and the *)
(* owner's consent; and no subdomain, email or national id is registered    *)
(* twice, however two registrations interleave.                             *)
C19_RegistrationIsAllOrNothing ==
  [][C19_FailurePersistsNothing /\ C19_NoPartialRegistration' /\ C19_Unique']_vars

(* a registration has reached its transaction although another one has    *)
(* meanwhile registered the same subdomain                                  *)
C19_Witness ==
  \E r \in Slots :
    /\ req[r].op = "register" /\ req[r].pc = "transaction"
    /\ \E o \in registry.organizations : o.subdomain = req[r].subdomain

C20_SameResponseForEveryEmail ==
  \A e \in Emails, f \in ForgotFaults :
    ForgotResponse(e, f) = ForgotResponse("u1", "none")

C20_ResponseSent ==
  \A r \in Slots, e \in Emails, f \in ForgotFaults :
    (req' = req /\ resp'.op = "forgot_password" /\ ForgotPasswordLimited(r, e, f))
      => /\ <<resp'.status, resp'.reason>> = ForgotResponse(e, f)
         /\ rateLimit("forgot-password", ForgotLimit)
              => resp'.status = 200 /\ resp'.reason = "generic"

(* C20: in every reachable state the status and the body of the response  *)
(* of POST /auth/forgot-password are the same for the email of an active    *)
(* user, of an inactive user and of no user, whether or not the lookup, the *)
(* update or the security log fails: the generic success, for a request the *)
(* rate limiter admits.                                                     *)
C20_ForgotPasswordDisclosesNothing ==
  [][C20_SameResponseForEveryEmail /\ C20_SameResponseForEveryEmail' /\ C20_ResponseSent]_vars

(* the generic success was sent although the email was of no active user, *)
(* after a reset token was stored for the active user                      *)
C20_Witness ==
  /\ resp.op = "forgot_password" /\ resp.status = 200 /\ resp.event = "none"
  /\ users["u1"].resetPasswordToken # NoToken
  /\ users["u1"].resetPasswordToken < tokensIssued + 1
  /\ ~users["u2"].isActive
  /\ rateLimitStore["forgot-password"].count = 2

(* ---------------- C21 - C30 ---------------- *)
(* the window of key is open: it was opened and its resetAt has not passed *)
WindowOpen(key) ==
  rateLimitStore[key] # NoRecord /\ ~(rateLimitStore[key].resetAt < now)

(* the number of calls on key let through at or after time t *)
AllowedSince(key, t) ==
  Cardinality({i \in 1..Len(allowedAt[key]) : allowedAt[key][i] >= t})

C21_CallOutcome ==
  \A key \in RateKeys :
    ApplyRateLimit(key, LimitOf(key), HOUR)
      => LET record == rateLimitStore[key] IN
         /\ resp'.status = 200 <=> (~WindowOpen(key) \/ record.count < LimitOf(key))
         /\ resp'.status = 429 <=> (WindowOpen(key) /\ record.count >= LimitOf(key))
         /\ ~WindowOpen(key)
              => rateLimitStore'[key] = [count |-> 1, resetAt |-> now + HOUR]
         /\ (WindowOpen(key) /\ resp'.status = 200)
              => rateLimitStore'[key] = [record EXCEPT !.count = @ + 1]
         /\ resp'.status = 429 => rateLimitStore'[key] = record
         /\ \A other \in RateKeys \ {key} :
              /\ rateLimitStore'[other] = rateLimitStore[other]
              /\ allowedAt'[other] = allowedAt[other]

C21_CountIsTheTally ==
  \A key \in RateKeys :
    rateLimitStore[key] # NoRecord
      => /\ rateLimitStore[key].count = AllowedSince(key, rateLimitStore[key].resetAt - HOUR)
         /\ rateLimitStore[key].count >= 1
         /\ rateLimitStore[key].count <= LimitOf(key)

(* C21: a call on a key is let through when no window is open, which opens *)
(* one with count 1, or when fewer than limit calls were let through since  *)
(* the window was opened; every other call until resetAt has passed is      *)
(* rejected and changes nothing; so count is the number of calls let        *)
(* through in the window and never exceeds limit; a call on one key leaves  *)
(* the record of every other key as it was.                                 *)
C21_LimitPerWindow ==
  [][C21_CallOutcome /\ C21_CountIsTheTally']_vars

(* a call was rejected at the very end of a window in which limit calls *)
(* had been let through                                                  *)
C21_Witness ==
  /\ resp.op = "rate_limit" /\ resp.status = 429 /\ resp.key = "forgot-password"
  /\ rateLimitStore["forgot-password"].resetAt = now
  /\ rateLimitStore["forgot-password"].count = LimitOf("forgot-password")
  /\ AllowedSince("forgot-password", 0) = LimitOf("forgot-password")

(* C22: for every key, every interval of windowMs, wherever it starts,   *)
(* contains at most limit calls that were let through.                    *)
C22_SlidingWindow ==
  \A key \in RateKeys :
    \A i \in 1..Len(allowedAt[key]) :
      Cardinality({j \in 1..Len(allowedAt[key]) :
                     /\ allowedAt[key][j] >= allowedAt[key][i]
                     /\ allowedAt[key][j] < allowedAt[key][i] + HOUR})
        <= LimitOf(key)


(* ---------------- lib/prisma: the pure helpers, applied to drawn inputs ---------------- *)
PlanInputs == SubscriptionPlans \cup {"UNKNOWN", "", "constructor", "toString"}

FeatureInputs == features.ENTERPRISE \cup {"unknown_feature", "includes"}

HasFeatureCall(plan, feature) ==
  /\ resp' = [op |-> "hasFeature", plan |-> plan, feature |-> feature,
              threw |-> hasFeature_Throws(plan, feature),
              value |-> ~hasFeature_Throws(plan, feature) /\ hasFeature(plan, feature)]
  /\ UNCHANGED <<authVars, req, tenantVars>>

(* organizationId may name no organization: findUnique yields null and the function throws *)
OrgInputs == Orgs \cup {"o9"}

IsTrialExpiredCall(organizationId) ==
  /\ resp' = [op |-> "isTrialExpired", org |-> organizationId, at |-> now,
              threw |-> organizationId \notin Orgs,
              value |-> organizationId \in Orgs /\ isTrialExpired(organizationId)]
  /\ UNCHANGED <<authVars, req, tenantVars>>

OrgStatuses == {"TRIAL", "ACTIVE", "SUSPENDED", "CANCELLED"}

InitHelpers ==
  /\ InitCommon
  /\ users = [u \in Users |-> InitialUser(u, TRUE)]
  /\ \E st \in OrgStatuses, te \in {Null, Quantum} :
       orgs = [o \in Orgs |-> IF o = "o1" THEN [status |-> st, trialEndsAt |-> te]
                              ELSE ActiveOrg]

NextHelpers ==
  \/ \E plan \in PlanInputs, feature \in FeatureInputs : HasFeatureCall(plan, feature)
  \/ \E organizationId \in OrgInputs : IsTrialExpiredCall(organizationId)
  \/ Tick(Quantum)

SpecHelpers == InitHelpers /\ [][NextHelpers]_vars

PlanRank(plan) ==
  CASE plan = "FREE" -> 0 [] plan = "STARTER" -> 1 [] plan = "PROFESSIONAL" -> 2
    [] plan = "ENTERPRISE" -> 3

(* every feature of a plan is a feature of every higher plan, and a higher plan has more *)
C23_Monotone ==
  \A p, q \in SubscriptionPlans :
    PlanRank(p) < PlanRank(q) =>
      /\ \A f \in FeatureInputs : hasFeature(p, f) => hasFeature(q, f)
      /\ \E f \in FeatureInputs : hasFeature(q, f) /\ ~hasFeature(p, f)

C23_WhiteLabelFromProfessional ==
  \A f \in {"white_label", "custom_domain"} :
    /\ ~hasFeature("FREE", f) /\ ~hasFeature("STARTER", f)
    /\ hasFeature("PROFESSIONAL", f) /\ hasFeature("ENTERPRISE", f)

(* each call made with an unknown plan or an unknown feature returned false *)
C23_UnknownYieldsFalse ==
  (resp.op = "hasFeature"
     /\ (resp.plan \notin SubscriptionPlans \/ resp.feature \notin features.ENTERPRISE))
  => (~resp.threw /\ resp.value = FALSE)

(* C23: hasFeature is monotone in the plan order FREE < STARTER < PROFESSIONAL <   *)
(* ENTERPRISE, each higher plan having strictly more features; white_label and     *)
(* custom_domain are false for FREE and STARTER and true for PROFESSIONAL and      *)
(* ENTERPRISE; an unknown plan or an unknown feature yields false, never an error. *)
C23_HasFeature ==
  /\ C23_Monotone
  /\ C23_WhiteLabelFromProfessional
  /\ C23_UnknownYieldsFalse

(* the parts of C23 that do hold: the table is monotone, and a call whose plan is *)
(* not a key that the table inherits returns false for anything unknown           *)
C23_HoldsForOrdinaryInputs ==
  /\ C23_Monotone
  /\ C23_WhiteLabelFromProfessional
  /\ resp.op = "hasFeature" /\ resp.plan \notin InheritedKeys => C23_UnknownYieldsFalse

C23_WitnessThrows ==
  resp.op = "hasFeature" /\ resp.plan = "constructor" /\ resp.threw

(* C24: isTrialExpired(org) is true exactly when the organization's status is TRIAL, *)
(* trialEndsAt is set and now is after trialEndsAt; it is false for ACTIVE,          *)
(* SUSPENDED and CANCELLED organizations whatever trialEndsAt holds; it changes no   *)
(* state.                                                                            *)
C24_TrialExpired ==
  [][(resp' # resp /\ resp'.op = "isTrialExpired" /\ ~resp'.threw) =>
       /\ resp'.value = (/\ orgs[resp'.org].status = "TRIAL"
                         /\ orgs[resp'.org].trialEndsAt # Null
                         /\ now > orgs[resp'.org].trialEndsAt)
       /\ orgs[resp'.org].status \in {"ACTIVE", "SUSPENDED", "CANCELLED"}
            => resp'.value = FALSE
       /\ UNCHANGED <<authVars, req, tenantVars>>]_vars

C24_Witness ==
  /\ resp.op = "isTrialExpired" /\ resp.org = "o1" /\ resp.value = TRUE
  /\ orgs["o1"].status = "TRIAL" /\ resp.at > orgs["o1"].trialEndsAt

C24_WitnessActivePastTrialEnd ==
  /\ resp.op = "isTrialExpired" /\ resp.org = "o1" /\ resp.value = FALSE
  /\ orgs["o1"].status = "ACTIVE" /\ orgs["o1"].trialEndsAt # Null
  /\ resp.at > orgs["o1"].trialEndsAt

(* ---------------- lib/utils/api: withApiRoute ---------------- *)
(* the x-forwarded-for header of a request, NoHeader when it carries none *)
NoHeader == "none"

Headers == {"ip1", NoHeader}

Identifier(header) == IF header = NoHeader THEN "anonymous" ELSE header

(* the options a route is wrapped with; rateLimit tells whether options.rateLimit *)
(* is given, its limit being ApiLimit and its window one hour                     *)
ApiLimit == MaxLimit

ApiOptions ==
  { [requireAuth |-> TRUE, allowedRoles |-> {"ORGANIZATION_OWNER"}, rateLimit |-> TRUE],
    [requireAuth |-> TRUE, allowedRoles |-> {}, rateLimit |-> TRUE],
    [requireAuth |-> TRUE, allowedRoles |-> {"ORGANIZATION_OWNER"}, rateLimit |-> FALSE],
    [requireAuth |-> FALSE, allowedRoles |-> {}, rateLimit |-> TRUE] }

(* consumed tells whether the request was counted by the rate limiter *)
ApiResponse(r, op, status, reason, event, identifier, consumed) ==
  /\ req' = [req EXCEPT ![r] = Idle]
  /\ resp' = [op |-> op, status |-> status, reason |-> reason, event |-> event,
              identifier |-> identifier, consumed |-> consumed]

(* the wrapper up to its first await: the rate limiter *)
WithApiRouteStart(r, header, tok, options) ==
  /\ Accepts(r)
  /\ LET identifier == Identifier(header) IN
     IF options.rateLimit
     THEN /\ rateLimitStore' = rateLimited(identifier, ApiLimit, HOUR)
          /\ IF ~rateLimit(identifier, ApiLimit)
             THEN ApiResponse(r, "api", 429, "rate_limit", "none", identifier, FALSE)
             ELSE /\ req' = [req EXCEPT ![r] =
                        [op |-> "api", pc |-> IF options.requireAuth THEN "auth" ELSE "handler",
                         tok |-> tok, options |-> options, identifier |-> identifier,
                         consumed |-> TRUE, userId |-> NoUser]]
                  /\ UNCHANGED resp
     ELSE /\ req' = [req EXCEPT ![r] =
                [op |-> "api", pc |-> IF options.requireAuth THEN "auth" ELSE "handler",
                 tok |-> tok, options |-> options, identifier |-> identifier,
                 consumed |-> FALSE, userId |-> NoUser]]
          /\ UNCHANGED <<resp, rateLimitStore>>
  /\ UNCHANGED <<authVars, registry, orgData, patients, allowedAt, usageLedger>>

(* requireAuth, then requireRole when allowedRoles is not empty *)
WithApiRouteAuth(r) ==
  /\ req[r].op = "api" /\ req[r].pc = "auth"
  /\ LET userId == requireAuth(req[r].tok) IN
     IF userId = NoUser
     THEN ApiResponse(r, "api", 401, "unauthorized", "none", req[r].identifier,
                      req[r].consumed)
     ELSE IF /\ req[r].options.allowedRoles # {}
             /\ ~requireRole([role |-> users[userId].role], req[r].options.allowedRoles)
     THEN ApiResponse(r, "api", 403, "role", "none", req[r].identifier, req[r].consumed)
     ELSE /\ req' = [req EXCEPT ![r].pc = "handler", ![r].userId = userId]
          /\ UNCHANGED resp
  /\ UNCHANGED <<authVars, tenantVars>>

(* the wrapped handler runs *)
WithApiRouteHandler(r) ==
  /\ req[r].op = "api" /\ req[r].pc = "handler"
  /\ ApiResponse(r, "api", 200, "ok", "handler", req[r].identifier, req[r].consumed)
  /\ UNCHANGED <<authVars, tenantVars>>

(* ---------------- POST /auth/verify-email/send ---------------- *)
VerifyEmailLimit == 3

VerifyEmailKey(userId) == IF userId = "u1" THEN "verify-email:u1" ELSE "verify-email:u2"

(* requireAuth, and in the same continuation applyRateLimit under the user's key *)
VerifyEmailSendStart(r, tok) ==
  /\ Accepts(r)
  /\ LET userId == requireAuth(tok) IN
     IF userId = NoUser
     THEN /\ ApiResponse(r, "verify_email_send", 401, "unauthorized", "none", "none", FALSE)
          /\ UNCHANGED rateLimitStore
     ELSE /\ rateLimitStore' = rateLimited(VerifyEmailKey(userId), VerifyEmailLimit, HOUR)
          /\ IF ~rateLimit(VerifyEmailKey(userId), VerifyEmailLimit)
             THEN ApiResponse(r, "verify_email_send", 429, "rate_limit", "none",
                              VerifyEmailKey(userId), FALSE)
             ELSE /\ req' = [req EXCEPT ![r] =
                        [op |-> "verify_email_send", pc |-> "handler", userId |-> userId,
                         identifier |-> VerifyEmailKey(userId), consumed |-> TRUE]]
                  /\ UNCHANGED resp
  /\ UNCHANGED <<authVars, registry, orgData, patients, allowedAt, usageLedger>>

(* the body of the handler: the verification token it stores and the e-mail it *)
(* sends are outside the modelled user record                                    *)
VerifyEmailSendHandler(r) ==
  /\ req[r].op = "verify_email_send" /\ req[r].pc = "handler"
  /\ ApiResponse(r, "verify_email_send", 200, "ok", "handler", req[r].identifier,
                 req[r].consumed)
  /\ UNCHANGED <<authVars, tenantVars>>

(* wrapped routes and the verify-email route, one request at a time, called with *)
(* and without the access token of u1's session                                   *)
NextPipeline ==
  \/ \E r \in Slots :
       /\ Len(sessions) + InFlightLogins < MaxRefreshSessions
       /\ LoginStart(r, "u1", users["u1"].password)
  \/ \E r \in Slots : LoginVerify(r)
  \/ \E r \in Slots : LoginUpdateUser(r)
  \/ \E r \in Slots, header \in Headers, tok \in IssuedTokens \cup {NoToken},
        options \in ApiOptions :
       AllFree /\ WithApiRouteStart(r, header, tok, options)
  \/ \E r \in Slots : WithApiRouteAuth(r)
  \/ \E r \in Slots : WithApiRouteHandler(r)
  \/ \E r \in Slots, tok \in IssuedTokens \cup {NoToken} :
       AllFree /\ VerifyEmailSendStart(r, tok)
  \/ \E r \in Slots : VerifyEmailSendHandler(r)

SpecPipeline == InitOrganizations /\ [][NextPipeline]_vars

(* a request rejected with 401 was not counted by the rate limiter *)
C25_UnauthenticatedConsumesNothing ==
  (resp.op \in {"api", "verify_email_send"} /\ resp.status = 401) => ~resp.consumed

(* the handler runs only for a request that passed authentication, the rate *)
(* limiter and the role check, each where the route asks for it               *)
C25_HandlerOnlyAfterEveryCheck ==
  \A r \in Slots :
    /\ (req[r].op = "api" /\ req[r].pc = "handler") =>
         /\ req[r].options.rateLimit => req[r].consumed
         /\ req[r].options.requireAuth =>
              /\ req[r].userId # NoUser
              /\ req[r].options.allowedRoles # {} =>
                   users[req[r].userId].role \in req[r].options.allowedRoles
    /\ (req[r].op = "verify_email_send" /\ req[r].pc = "handler") =>
         req[r].userId # NoUser /\ req[r].consumed

(* C25: authentication is performed before rate limiting, and both before the role *)
(* check and the handler: a request without valid credentials is rejected with 401 *)
(* without consuming rate-limit quota of its identifier, and a handler never runs  *)
(* for a request that failed authentication, rate limiting or the role check.      *)
C25_PipelineOrder ==
  /\ C25_UnauthenticatedConsumesNothing
  /\ C25_HandlerOnlyAfterEveryCheck

(* the verify-email route does authenticate first *)
C25_VerifyEmailAuthenticatesFirst ==
  (resp.op = "verify_email_send" /\ resp.status = 401) => ~resp.consumed

C25_WitnessQuotaSpent ==
  /\ resp.op = "api" /\ resp.status = 401 /\ resp.consumed
  /\ rateLimitStore[resp.identifier].count > 0

C25_WitnessHandlerRan ==
  resp.op = "api" /\ resp.status = 200 /\ resp.event = "handler"

(* C26: every failed login attempt against an existing user appends one security-log *)
(* event, whatever the reason for the failure (wrong password, lock still active,     *)
(* inactive user, suspended, cancelled or trial-expired organization); a successful   *)
(* login appends a login.success event.                                               *)
C26_EveryLoginOutcomeIsLogged ==
  resp.op = "login" =>
    /\ resp.status = 200 => resp.event = "login.success"
    /\ (resp.status # 200 /\ resp.reason # "no_user") => resp.event # "none"

(* what does hold: a wrong password is logged as login.failed, a success as *)
(* login.success                                                             *)
C26_WrongPasswordAndSuccessAreLogged ==
  resp.op = "login" =>
    /\ resp.status = 200 => resp.event = "login.success"
    /\ resp.reason \in {"bad_password", "bad_password_locked"} => resp.event = "login.failed"

C26_WitnessLockedNotLogged ==
  /\ resp.op = "login" /\ resp.status = 403 /\ resp.reason = "locked"
  /\ resp.event = "none"

C26_WitnessInactiveNotLogged ==
  /\ resp.op = "login" /\ resp.status = 403
  /\ resp.reason \in {"inactive", "suspended", "trial_expired"}
  /\ resp.event = "none"

(* a login request in slot r that passed the password comparison returns *)
PasswordAcceptedReturns(r) ==
  /\ req[r].op = "login" /\ req'[r] = Idle
  /\ resp'.op = "login" /\ resp'.reason \notin {"bad_password", "bad_password_locked"}

(* C27: every login whose password check succeeds resets failedLoginAttempts to 0  *)
(* and clears lockedUntil, whatever the later outcome of that request (including a *)
(* rejection for an inactive user or a suspended, cancelled or trial-expired       *)
(* organization).                                                                  *)
C27_PasswordSuccessResets ==
  [][\A r \in Slots :
       PasswordAcceptedReturns(r) =>
         /\ users'[req[r].userId].failedLoginAttempts = 0
         /\ users'[req[r].userId].lockedUntil = Null]_vars

(* what does hold: the login that is answered 200 resets both fields *)
C27_AcceptedLoginResets ==
  [][\A r \in Slots :
       (PasswordAcceptedReturns(r) /\ resp'.status = 200) =>
         /\ users'[req[r].userId].failedLoginAttempts = 0
         /\ users'[req[r].userId].lockedUntil = Null]_vars

C27_WitnessRejectedKeepsCount ==
  /\ AllFree
  /\ resp.op = "login" /\ resp.status = 403 /\ resp.reason = "inactive"
  /\ users["u1"].failedLoginAttempts > 0

LockInFuture(u) == users[u].lockedUntil # Null /\ users[u].lockedUntil > now

C28_UnlockedIsBelowMax ==
  \A u \in Users : ~LockInFuture(u) => users[u].failedLoginAttempts < MAX_LOGIN_ATTEMPTS

(* the first wrong password after a lock expired: the request read the expired lock *)
C28_WrongPasswordAfterExpiry(r) ==
  /\ req[r].op = "login" /\ req[r].pc = "verify"
  /\ req[r].user.lockedUntil # Null
  /\ ~compare(req[r].password, req[r].user.password)
  /\ req'[r] = Idle

(* C28: a user whose lockedUntil has passed is treated as a user with              *)
(* failedLoginAttempts < MAX_LOGIN_ATTEMPTS: one wrong password on the first       *)
(* attempt after the lock expired does not lock the account again, and in every    *)
(* reachable state a user who is not currently locked has failedLoginAttempts < 5. *)
C28_ExpiredLockIsOpen ==
  /\ []C28_UnlockedIsBelowMax
  /\ [][\A r \in Slots :
          C28_WrongPasswordAfterExpiry(r) =>
            ~(/\ users'[req[r].userId].lockedUntil # Null
              /\ users'[req[r].userId].lockedUntil > now')]_vars

C28_NoRelockByOneFailure ==
  [][\A r \in Slots :
       C28_WrongPasswordAfterExpiry(r) =>
         ~(/\ users'[req[r].userId].lockedUntil # Null
           /\ users'[req[r].userId].lockedUntil > now')]_vars

C28_WitnessExpiredAtMax ==
  /\ AllFree
  /\ users["u1"].lockedUntil # Null /\ ~LockInFuture("u1")
  /\ users["u1"].failedLoginAttempts = MAX_LOGIN_ATTEMPTS

C28_WitnessLockedAgain ==
  /\ resp.op = "login" /\ resp.reason = "bad_password_locked"
  /\ users["u1"].failedLoginAttempts = MAX_LOGIN_ATTEMPTS + 1
  /\ LockInFuture("u1")

(* no login for a user whose lock is in the future reaches the password comparison *)
C29_NoCompareWhileLocked ==
  \A r \in Slots :
    (Free(r) /\ req'[r].op = "login") => ~LockInFuture(req'[r].userId)

(* the answer to a login made during the lock: 403, and nothing is written *)
C29_LockedAnswerWritesNothing ==
  (resp' # resp /\ resp'.op = "login" /\ resp'.reason = "locked") =>
    /\ resp'.status = 403
    /\ users' = users /\ sessions' = sessions

(* once the requests that arrived before the lock have returned, the record of a *)
(* locked user stays as it is: lockedUntil is the one that was set               *)
C29_LockIsNotExtended ==
  \A u \in Users : (AllFree /\ LockInFuture(u)) => users'[u] = users[u]

(* C29: a login attempt made while lockedUntil is in the future is rejected before *)
(* the password is compared and leaves the user record unchanged:                  *)
(* failedLoginAttempts is not incremented and lockedUntil is not extended, so the  *)
(* lock ends 15 minutes after it was set however many attempts are made during it. *)
C29_AttemptsDuringLockChangeNothing ==
  [][C29_NoCompareWhileLocked /\ C29_LockedAnswerWritesNothing /\ C29_LockIsNotExtended]_vars

C29_Witness ==
  /\ AllFree
  /\ resp.op = "login" /\ resp.status = 403 /\ resp.reason = "locked"
  /\ now = Quantum /\ users["u1"].lockedUntil = LOCK_DURATION
  /\ users["u1"].failedLoginAttempts = MAX_LOGIN_ATTEMPTS

(* the step in which the refresh in slot r stores its token and answers 200 *)
RefreshStores(r) ==
  /\ req[r].op = "refresh" /\ req[r].pc = "update"
  /\ req'[r] = Idle

(* that step writes accessToken and lastActivityAt of its session and nothing else; *)
(* the refresh token of a session is its place in sessions                          *)
C30_WritesTokenAndActivityOnly ==
  \A r \in Slots :
    RefreshStores(r) =>
      /\ resp'.op = "refresh" /\ resp'.status = 200
      /\ Len(sessions') = Len(sessions)
      /\ \A i \in 1..Len(sessions) :
           /\ sessions'[i].userId = sessions[i].userId
           /\ sessions'[i].isValid = sessions[i].isValid
           /\ sessions'[i].expiresAt = sessions[i].expiresAt
           /\ i # req[r].sid => sessions'[i] = sessions[i]
      /\ sessions'[req[r].sid].accessToken = req[r].accessToken
      /\ sessions'[req[r].sid].lastActivityAt = req[r].lastActivityAt

(* expiresAt of a session is the one of its login, whatever happens *)
C30_LifetimeIsFixed ==
  \A i \in 1..Len(sessions) :
    /\ i <= Len(sessions')
    /\ sessions'[i].expiresAt = sessions[i].expiresAt

(* a refresh called after expiresAt passes no check: it goes on to no update *)
C30_NoRefreshAfterExpiry ==
  \A r \in Slots :
    (Free(r) /\ req'[r].op = "refresh" /\ req'[r].pc = "update") =>
      ~(now > sessions[req'[r].sid].expiresAt)

C30_WitnessInvalidStaysInvalid ==
  /\ resp.op = "refresh" /\ resp.status = 200
  /\ Len(sessions) >= 1
  /\ ~sessions[1].isValid
  /\ sessions[1].lastActivityAt = sessions[1].accessToken.iat
  /\ now >= Jump

(* ---------------- C31 - C39 ---------------- *)
(* concurrent checkAndIncrementUsage and decrementUsage calls on the patients of *)
(* o1, and checkAndIncrementUsage calls on its AI queries while a month passes   *)
NextLedger ==
  \/ \E r \in Slots, amount \in Amounts : UsageCheck(r, "o1", "patients", amount)
  \/ \E r \in Slots : UsageCheck(r, "o1", "aiQueries", 1)
  \/ \E r \in Slots : UsageReset(r)
  \/ \E r \in Slots : UsageIncrement(r)
  \/ \E amount \in Amounts :
       /\ orgData["o1"].current.patients - amount >= 0 - MaxBelowZero
       /\ decrementUsage("o1", "patients", amount)
  \/ now < Jump /\ Tick(Jump)

SpecLedger == InitSession /\ [][NextLedger]_vars

(* the counter a resource of an organization starts with *)
InitialUsage(o, type) ==
  IF type = "users" THEN 1
  ELSE IF type = "patients" THEN (IF o = "o1" THEN 2 ELSE 1)
  ELSE 0

Balanced(o, type) ==
  orgData[o].current[type] = InitialUsage(o, type) + usageLedger[o][type]

C31_WitnessReset ==
  /\ orgData["o1"].aiQueriesResetAt > 0
  /\ usageLedger["o1"].aiQueries > orgData["o1"].current.aiQueries

(* ---------------- lib/prisma: checkUsageLimit called on its own ---------------- *)
(* findUnique, and the answer when no reset is due; the answer is                 *)
(* [exceeded, current, max]                                                       *)
CheckUsageLimitRead(r, organizationId, type) ==
  /\ Accepts(r)
  /\ LET organization == orgData[organizationId]
         monthDiff == MonthOf(now) - MonthOf(organization.aiQueriesResetAt) IN
     IF type = "aiQueries" /\ monthDiff >= 1
     THEN /\ req' = [req EXCEPT ![r] =
                [op |-> "check_usage_limit", pc |-> "reset", org |-> organizationId,
                 type |-> type, now |-> now, resetAt |-> organization.aiQueriesResetAt,
                 max |-> organization.max[type]]]
          /\ UNCHANGED resp
     ELSE /\ req' = [req EXCEPT ![r] = Idle]
          /\ resp' = [op |-> "check_usage_limit", status |-> 200, reason |-> type,
                      event |-> "none", reset |-> FALSE,
                      exceeded |-> organization.current[type] >= organization.max[type],
                      current |-> organization.current[type],
                      max |-> organization.max[type]]
  /\ UNCHANGED <<authVars, tenantVars>>

(* the update of the reset, and the answer that follows it without a second read *)
CheckUsageLimitReset(r) ==
  /\ req[r].op = "check_usage_limit" /\ req[r].pc = "reset"
  /\ orgData' = [orgData EXCEPT ![req[r].org].current.aiQueries = 0,
                                ![req[r].org].aiQueriesResetAt = req[r].now]
  /\ req' = [req EXCEPT ![r] = Idle]
  /\ resp' = [op |-> "check_usage_limit", status |-> 200, reason |-> req[r].type,
              event |-> "none", reset |-> TRUE, exceeded |-> FALSE, current |-> 0,
              max |-> req[r].max]
  /\ UNCHANGED <<authVars, rateLimitStore, registry, patients, allowedAt, usageLedger>>

(* the clock moves to the last quantum of the second month and then into the third *)
MonthTick ==
  /\ \/ now = 0 /\ now' = 2 * Jump - Quantum
     \/ now = 2 * Jump - Quantum /\ now' = 2 * Jump
  /\ UNCHANGED <<users, orgs, tenantVars, sessions, req, resp, tokensIssued, consecFails,
                 refused>>

(* checkUsageLimit for every resource of o1, between calls of checkAndIncrementUsage *)
(* that raise the counters of patients and AI queries                                *)
NextMonth ==
  \/ \E r \in Slots, type \in ResourceTypes : CheckUsageLimitRead(r, "o1", type)
  \/ \E r \in Slots : CheckUsageLimitReset(r)
  \/ \E r \in Slots, type \in {"patients", "aiQueries"} :
       AllFree /\ UsageCheck(r, "o1", type, 1)
  \/ \E r \in Slots : UsageReset(r)
  \/ \E r \in Slots : UsageIncrement(r)
  \/ MonthTick

SpecMonth == InitSession /\ [][NextMonth]_vars

(* the call in slot r finds a reset due *)
ResetDue(r) ==
  Free(r) /\ req'[r].op = "check_usage_limit" /\ req'[r].pc = "reset"

(* the reset: counter 0, aiQueriesResetAt the time of the call, exceeded = false *)
C32_ResetAnswer ==
  \A r \in Slots :
    (req[r].op = "check_usage_limit" /\ req[r].pc = "reset" /\ req'[r] = Idle) =>
      /\ orgData'[req[r].org].current.aiQueries = 0
      /\ orgData'[req[r].org].aiQueriesResetAt = req[r].now
      /\ resp'.op = "check_usage_limit" /\ ~resp'.exceeded /\ resp'.current = 0

(* users, patients and storage: nothing is written, exceeded is current >= max *)
C32_OtherResourcesAreReadOnly ==
  \A r \in Slots :
    (Free(r) /\ req' # req /\ resp'.op = "check_usage_limit" /\ resp' # resp
       /\ resp'.reason # "aiQueries") =>
      /\ req'[r] = Idle => orgData' = orgData
      /\ resp'.exceeded = (orgData["o1"].current[resp'.reason] >= orgData["o1"].max[resp'.reason])
      /\ resp'.current = orgData["o1"].current[resp'.reason]

(* a reset is due only when a whole month has elapsed since aiQueriesResetAt *)
C32_NoResetWithinTheMonth ==
  \A r \in Slots :
    ResetDue(r) => now - orgData[req'[r].org].aiQueriesResetAt >= Jump

(* a reset is due exactly when the month of now is after the month of aiQueriesResetAt *)
C32_ResetWhenTheMonthChanged ==
  \A r \in Slots :
    (Free(r) /\ req'[r] # req[r] /\ (req'[r].op = "check_usage_limit"
                                      \/ (resp'.op = "check_usage_limit" /\ resp' # resp))) =>
      (ResetDue(r) <=> /\ MonthOf(now) - MonthOf(orgData["o1"].aiQueriesResetAt) >= 1
                       /\ req'[r].op = "check_usage_limit" /\ req'[r].type = "aiQueries")

(* C32: checkUsageLimit(org, 'aiQueries') resets the counter (currentAiQueries = 0,  *)
(* aiQueriesResetAt = now, exceeded = false, current = 0) when at least one whole    *)
(* month lies between aiQueriesResetAt and now, and performs no reset when less than *)
(* a whole month has elapsed; for users, patients and storage it writes nothing and  *)
(* returns exceeded exactly when current >= max.                                     *)
C32_MonthlyReset ==
  [][C32_ResetAnswer /\ C32_OtherResourcesAreReadOnly /\ C32_NoResetWithinTheMonth]_vars

(* what does hold: the reset follows the change of the calendar month *)
C32_ResetAtMonthChange ==
  [][C32_ResetAnswer /\ C32_OtherResourcesAreReadOnly /\ C32_ResetWhenTheMonthChanged]_vars

(* a reset is due one quantum after the last one: the last one was made at the *)
(* end of a month, the call comes at the start of the next                      *)
C32_WitnessResetAfterOneQuantum ==
  \E r \in Slots :
    /\ req[r].op = "check_usage_limit" /\ req[r].pc = "reset"
    /\ req[r].resetAt > 0
    /\ req[r].now - req[r].resetAt = Quantum

C32_WitnessExceeded ==
  /\ resp.op = "check_usage_limit" /\ resp.reason = "patients" /\ resp.exceeded
  /\ orgData["o1"].current.patients = orgData["o1"].max.patients

(* the owner u1 deletes patients, also ones deleted before, in concurrent requests *)
NextDeletes ==
  \/ \E r \in Slots :
       /\ Len(sessions) + InFlightLogins < MaxRefreshSessions
       /\ LoginStart(r, "u1", users["u1"].password)
  \/ \E r \in Slots : LoginVerify(r)
  \/ \E r \in Slots : LoginUpdateUser(r)
  \/ \E r \in Slots, t \in IssuedTokens, id \in Patients :
       /\ orgData["o1"].current.patients > 0 - MaxBelowZero
       /\ PatientStart(r, t, "DELETE", id)
  \/ \E r \in Slots : PatientFind(r)
  \/ \E r \in Slots : PatientUpdate(r)

SpecDeletes == InitSession /\ [][NextDeletes]_vars

ActivePatients(o) == {p \in Patients : patients[p].organizationId = o /\ patients[p].isActive}

(* the DELETE in slot r goes on to its writes exactly when the patient is in the *)
(* caller's organization, deleted before or not                                  *)
C33_FoundWhateverIsActive ==
  \A r \in Slots :
    (req[r].op = "patients" /\ req[r].pc = "find" /\ req[r].method = "DELETE"
       /\ req'[r] # req[r]) =>
      IF patients[req[r].id].organizationId = req[r].user.organizationId
      THEN req'[r].op = "patients" /\ req'[r].pc = "update"
      ELSE req'[r] = Idle /\ resp'.status = 404 /\ orgData' = orgData

(* its writes: the patient is inactive, the counter is one lower whatever it was *)
C33_EachDeleteLowersByOne ==
  \A r \in Slots :
    (req[r].op = "patients" /\ req[r].pc = "update" /\ req[r].method = "DELETE"
       /\ req'[r] = Idle) =>
      /\ ~patients'[req[r].id].isActive
      /\ orgData'[req[r].user.organizationId].current.patients =
           orgData[req[r].user.organizationId].current.patients - 1

(* C33: decrementUsage is unconditional and has no floor: every DELETE              *)
(* /patients/[id] that finds the patient in the caller's organization lowers        *)
(* currentPatients by exactly 1, also when the patient was already soft-deleted, so *)
(* repeated deletes drive the counter below the number of active patients and below *)
(* zero.                                                                            *)
C33_DeleteHasNoFloor ==
  [][C33_FoundWhateverIsActive /\ C33_EachDeleteLowersByOne]_vars

(* the counter is below zero, and below the number of active patients *)
C33_Witness ==
  /\ AllFree
  /\ resp.op = "patients" /\ resp.status = 200
  /\ orgData["o1"].current.patients < 0
  /\ orgData["o1"].current.patients < Cardinality(ActivePatients("o1"))

(* one patient deleted twice: the other is still active, the counter says none *)
C33_WitnessBelowActive ==
  /\ AllFree
  /\ Cardinality(ActivePatients("o1")) = 1
  /\ orgData["o1"].current.patients = 0

(* ---------------- requireFeature under every plan and status ---------------- *)
(* the subscription of an organization changes: its plan, or its status *)
SetPlan(o, plan) ==
  /\ orgData[o].plan # plan
  /\ orgData' = [orgData EXCEPT ![o].plan = plan]
  /\ UNCHANGED <<authVars, req, resp, rateLimitStore, registry, patients, allowedAt,
                 usageLedger>>

SetStatus(o, status) ==
  /\ orgs[o].status # status
  /\ orgs' = [orgs EXCEPT ![o].status = status]
  /\ UNCHANGED <<now, users, sessions, tokensIssued, consecFails, refused, req, resp,
                 tenantVars>>

(* requireFeature called on its own; the id may name no organization *)
RequireFeatureCall(organizationId, feature) ==
  /\ resp' = [op |-> "requireFeature", org |-> organizationId, feature |-> feature,
              status |-> CASE requireFeature(organizationId, feature) = "ok" -> 200
                           [] requireFeature(organizationId, feature) = "not_found" -> 404
                           [] OTHER -> 403,
              reason |-> requireFeature(organizationId, feature), event |-> "none"]
  /\ UNCHANGED <<authVars, req, tenantVars>>

GatedEndpoints == {"domain.POST", "branding.PATCH"}

(* the owner of o1 adds a custom domain and updates the branding, one request at a *)
(* time, while the plan and the status of o1 change                                *)
NextFeature ==
  \/ \E r \in Slots :
       /\ Len(sessions) + InFlightLogins < MaxRefreshSessions
       /\ LoginStart(r, "u1", users["u1"].password)
  \/ \E r \in Slots : LoginVerify(r)
  \/ \E r \in Slots : LoginUpdateUser(r)
  \/ \E r \in Slots, t \in IssuedTokens, ep \in GatedEndpoints :
       AllFree /\ OrgStart(r, t, ep, "o1")
  \/ \E r \in Slots : OrgAccess(r)
  \/ \E r \in Slots : OrgData(r, FALSE)
  \/ \E organizationId \in OrgInputs, feature \in {"custom_domain", "white_label",
                                                   "unknown_feature"} :
       AllFree /\ RequireFeatureCall(organizationId, feature)
  \/ \E plan \in SubscriptionPlans : AllFree /\ SetPlan("o1", plan)
  \/ \E status \in OrgStatuses : AllFree /\ SetStatus("o1", status)

SpecFeature == InitSession /\ [][NextFeature]_vars

(* the answer of a call, and nothing written *)
C34_Answer ==
  (resp' # resp /\ resp'.op = "requireFeature") =>
    /\ resp'.status =
         IF resp'.org \notin Orgs THEN 404
         ELSE IF orgs[resp'.org].status \in {"SUSPENDED", "CANCELLED"} THEN 403
         ELSE IF resp'.feature \notin features[orgData[resp'.org].plan] THEN 403
         ELSE 200
    /\ UNCHANGED <<authVars, req, tenantVars>>

(* the rows of an organization change under domain.POST or branding.PATCH only *)
(* on PROFESSIONAL or ENTERPRISE, neither suspended nor cancelled              *)
C34_GatedWrites ==
  \A r \in Slots :
    (/\ req[r].op = "organizations" /\ req[r].pc = "data" /\ req[r].ep \in GatedEndpoints
     /\ orgData' # orgData) =>
      /\ orgData[req[r].org].plan \in {"PROFESSIONAL", "ENTERPRISE"}
      /\ orgs[req[r].org].status \notin {"SUSPENDED", "CANCELLED"}
      /\ resp'.status = 200

(* C34: requireFeature(org, feature) answers 404 when the organization does not    *)
(* exist, 403 when its status is SUSPENDED or CANCELLED whatever its plan, 403     *)
(* when its plan lacks the feature, and passes otherwise, writing nothing; adding  *)
(* a custom domain or updating branding changes state only for an organization on  *)
(* PROFESSIONAL or ENTERPRISE that is neither suspended nor cancelled.             *)
C34_RequireFeature ==
  [][C34_Answer /\ C34_GatedWrites]_vars

(* a suspended organization on ENTERPRISE was refused *)
C34_Witness ==
  /\ resp.op = "organizations" /\ resp.status = 403 /\ resp.reason = "suspended"
  /\ orgData["o1"].plan = "ENTERPRISE" /\ orgs["o1"].status = "SUSPENDED"
  /\ orgData["o1"].customDomain = "none"

C34_WitnessNotFound ==
  resp.op = "requireFeature" /\ resp.status = 404 /\ resp.org \notin Orgs

C34_WitnessDomainAdded ==
  /\ resp.op = "organizations" /\ resp.status = 200
  /\ orgData["o1"].customDomain = SubmittedDomain
  /\ orgs["o1"].status = "TRIAL"

(* a call on key is made in this step *)
CallOn(key) == ApplyRateLimit(key, LimitOf(key), HOUR)

C35_RejectedChangesNothing ==
  \A key \in RateKeys :
    (CallOn(key) /\ resp'.status = 429) => rateLimitStore' = rateLimitStore

C35_FirstCallAfterResetAt ==
  \A key \in RateKeys :
    (CallOn(key) /\ rateLimitStore[key] # NoRecord /\ now > rateLimitStore[key].resetAt) =>
      /\ resp'.status = 200
      /\ rateLimitStore'[key] = [count |-> 1, resetAt |-> now + HOUR]

C35_AtResetAtStillOldWindow ==
  \A key \in RateKeys :
    (CallOn(key) /\ rateLimitStore[key] # NoRecord /\ now = rateLimitStore[key].resetAt) =>
      /\ rateLimitStore'[key].resetAt = rateLimitStore[key].resetAt
      /\ resp'.status = 429 <=> rateLimitStore[key].count >= LimitOf(key)
      /\ resp'.status = 429 \/ rateLimitStore'[key].count = rateLimitStore[key].count + 1

(* C35: a rate-limited key is not blocked forever: rejected calls never change    *)
(* count or resetAt, the first call made after resetAt has passed is let through  *)
(* and opens a new window with count = 1 and resetAt = now + windowMs, and a call *)
(* at exactly now = resetAt still belongs to the old window.                      *)
C35_WindowElapses ==
  [][C35_RejectedChangesNothing /\ C35_FirstCallAfterResetAt
       /\ C35_AtResetAtStillOldWindow]_vars

(* the key was used up in the window opened at 0, and the call half an hour after *)
(* its resetAt opened a new window                                                *)
C35_Witness ==
  /\ resp.op = "rate_limit" /\ resp.key = "register" /\ resp.status = 200
  /\ allowedAt["register"] = <<0, HOUR + HalfHour>>
  /\ now = HOUR + HalfHour
  /\ rateLimitStore["register"] = [count |-> 1, resetAt |-> now + HOUR]

(* a call at exactly resetAt was rejected: the old window was still full *)
C35_WitnessAtResetAt ==
  /\ resp.op = "rate_limit" /\ resp.key = "register" /\ resp.status = 429
  /\ now = HOUR /\ rateLimitStore["register"] = [count |-> 1, resetAt |-> HOUR]


(* ---------------- requireAuth and the session table ---------------- *)
(* an administrator changes a user's role directly in the store *)
SetRole(u, role) ==
  /\ users[u].role # role
  /\ users' = [users EXCEPT ![u].role = role]
  /\ UNCHANGED <<now, orgs, tenantVars, sessions, req, resp, tokensIssued, consecFails, refused>>

(* a protected request: requireAuth answers 401 or hands the stored user *)
(* to the handler                                                         *)
RequireAuthCall(tok) ==
  LET user == requireAuth(tok) IN
  /\ resp' = IF user = NoUser
             THEN [op |-> "requireAuth", status |-> 401, reason |-> "unauthorized",
                   event |-> "none", token |-> tok, id |-> NoUser,
                   role |-> "none", organizationId |-> "none"]
             ELSE [op |-> "requireAuth", status |-> 200, reason |-> "ok",
                   event |-> "none", token |-> tok, id |-> user,
                   role |-> users[user].role,
                   organizationId |-> users[user].organizationId]
  /\ UNCHANGED <<authVars, req, tenantVars>>

(* the access token outlives one quantum and is expired after the jump *)
AuthTick ==
  \/ now = 0 /\ Tick(Quantum)
  \/ now = Quantum /\ Tick(Jump)

(* protected requests next to every handler that writes sessions or users *)
NextAuth ==
  \/ \E r \in Slots :
       /\ Len(sessions) + InFlightLogins < MaxRefreshSessions
       /\ LoginStart(r, "u1", users["u1"].password)
  \/ \E r \in Slots : LoginVerify(r)
  \/ \E r \in Slots : LoginUpdateUser(r)
  \/ \E r \in Slots, t \in IssuedTokens, c \in IssuedTokens : Logout(r, t, c)
  \/ \E r \in Slots, t \in IssuedTokens : LogoutAll(r, t)
  \/ \E r \in Slots, t \in IssuedTokens :
       ChangePasswordStart(r, t, t, users["u1"].password, "pwB")
  \/ \E r \in Slots : ChangePasswordSessions(r)
  \/ \E r \in Slots : ForgotPassword(r, "u1")
  \/ \E r \in Slots, k \in 1..tokensIssued : ResetPasswordStart(r, k, "pwB")
  \/ \E r \in Slots : ResetPasswordUpdate(r)
  \/ \E r \in Slots : ResetPasswordSessions(r)
  \/ \E b \in BOOLEAN : AllFree /\ AdminSetActive("u1", b)
  \/ \E role \in {"ORGANIZATION_OWNER", "DIETITIAN"} : AllFree /\ SetRole("u1", role)
  \/ \E tok \in AccessTokens : AllFree /\ RequireAuthCall(tok)
  \/ AllFree /\ AuthTick

SpecAuth == InitSession /\ [][NextAuth]_vars

(* the token a requireAuth answer was given for names an issued, unexpired *)
(* token of an active user                                                 *)
TokenStands(tok) ==
  /\ tok \in IssuedTokens
  /\ now < sessions[tok].accessToken.exp
  /\ users[sessions[tok].accessToken.userId].isActive

(* C36: requireAuth answers 200 exactly when the presented access token is *)
(* an issued, unexpired one whose user is active, whatever the state of    *)
(* the session row it was issued with (logged out, invalidated by a        *)
(* logout-all, a password change or a password reset), and 401 otherwise;  *)
(* the role and organizationId it returns are the stored ones              *)
C36_RequireAuthIgnoresSessions ==
  [][(resp' # resp /\ resp'.op = "requireAuth") =>
       /\ resp'.status \in {200, 401}
       /\ (resp'.status = 200) <=> TokenStands(resp'.token)
       /\ resp'.status = 200 =>
            /\ resp'.id = sessions[resp'.token].accessToken.userId
            /\ resp'.role = users[resp'.id].role
            /\ resp'.organizationId = users[resp'.id].organizationId]_vars

(* a token authenticates after its session was invalidated and the password *)
(* replaced                                                                  *)
C36_Witness ==
  /\ resp.op = "requireAuth" /\ resp.status = 200
  /\ ~sessions[resp.token].isValid
  /\ users[resp.id].password = "pwB"

(* the answer carries a role the token's claims do not *)
C36_WitnessStoredRole ==
  /\ resp.op = "requireAuth" /\ resp.status = 200
  /\ resp.role # sessions[resp.token].accessToken.role

(* an unexpired token of a deactivated user is answered 401 *)
C36_WitnessInactive ==
  /\ resp.op = "requireAuth" /\ resp.status = 401
  /\ resp.token \in IssuedTokens
  /\ now < sessions[resp.token].accessToken.exp
  /\ ~users[sessions[resp.token].accessToken.userId].isActive


(* ---------------- POST /patients ---------------- *)
(* the bodies submitted: one that fails validation, and <<tcKimlikNo, email>> *)
PatientBodies == {"invalid", <<"tc1", "m1">>, <<"tc1", "m2">>, <<"tc2", "m1">>}

(* the statement of the try block a fault of the store follows: none, *)
(* patient.create, or dataAccessLog.create after the row was written  *)
CreateFaults == {"none", "create", "log"}

(* the whole handler: requireAuth, requireRole, checkAndIncrementUsage, *)
(* validateRequest, the two duplicate checks, the create and the log    *)
PatientCreate(r, tok, body, fault) ==
  /\ Accepts(r)
  /\ LET userId == requireAuth(tok) IN
     IF userId = NoUser
     THEN PatientResponse(r, 401, "unauthorized", {}) /\ UNCHANGED <<orgData, usageLedger>>
     ELSE LET user == [id |-> userId, role |-> users[userId].role,
                       organizationId |-> users[userId].organizationId]
              o == user.organizationId
              d == orgData[o]
              counted == [d EXCEPT !.current.patients = @ + 1] IN
          IF ~requireRole(user, {"ORGANIZATION_OWNER", "DIETITIAN", "ASSISTANT"})
          THEN PatientResponse(r, 403, "role", {}) /\ UNCHANGED <<orgData, usageLedger>>
          ELSE IF d.current.patients >= d.max.patients
          THEN PatientResponse(r, 403, "usage", {}) /\ UNCHANGED <<orgData, usageLedger>>
          ELSE /\ usageLedger' = [usageLedger EXCEPT ![o].patients = @ + 1]
               /\ IF body = "invalid"
                  THEN /\ orgData' = [orgData EXCEPT ![o] = counted]
                       /\ PatientResponse(r, 400, "validation", {})
                  ELSE IF \E row \in d.createdPatients : row[1] = body[1]
                  THEN /\ orgData' = [orgData EXCEPT ![o] = counted]
                       /\ PatientResponse(r, 409, "tcKimlikNo", {})
                  ELSE IF \E row \in d.createdPatients : row[2] = body[2]
                  THEN /\ orgData' = [orgData EXCEPT ![o] = counted]
                       /\ PatientResponse(r, 409, "email", {})
                  ELSE IF fault = "create"
                  THEN /\ orgData' = [orgData EXCEPT ![o] = counted]
                       /\ PatientResponse(r, 500, "error", {})
                  ELSE /\ orgData' = [orgData EXCEPT ![o] =
                                        [counted EXCEPT !.createdPatients = @ \cup {body}]]
                       /\ IF fault = "log"
                          THEN PatientResponse(r, 500, "error", {})
                          ELSE PatientResponse(r, 201, "created", {})
  /\ UNCHANGED <<authVars, rateLimitStore, registry, patients, allowedAt>>

(* both users create patients and invite users, one request at a time *)
NextCreate ==
  \/ \E r \in Slots, u \in Users :
       /\ Len(sessions) + InFlightLogins < MaxSessions
       /\ \A i \in 1..Len(sessions) : sessions[i].userId # u
       /\ AllFree
       /\ LoginStart(r, u, users[u].password)
  \/ \E r \in Slots : LoginVerify(r)
  \/ \E r \in Slots : LoginUpdateUser(r)
  \/ \E r \in Slots, t \in IssuedTokens, body \in PatientBodies, fault \in CreateFaults :
       PatientCreate(r, t, body, fault)
  \/ \E r \in Slots, t \in IssuedTokens, o \in Orgs :
       AllFree /\ OrgStart(r, t, "users.POST", o)
  \/ \E r \in Slots : OrgAccess(r)
  \/ \E r \in Slots : OrgData(r, FALSE)

SpecCreate == InitSession /\ [][NextCreate]_vars

CreateOps == {"patients", "organizations"}

(* the counters a request of organization o can have raised *)
Counters(o) == <<orgData[o].current.patients, orgData[o].current.users>>

(* C37: a create request that ends in 400, 404, 409 or 500 leaves          *)
(* currentPatients and currentUsers as they were, and with no request in   *)
(* flight each counter has grown by the number of rows created             *)
C37_FailedCreateLeavesCounter ==
  [][(resp' # resp /\ resp'.op \in CreateOps /\ resp'.status \in {400, 404, 409, 500}) =>
       \A o \in Orgs : Counters(o)' = Counters(o)]_vars

C37_CounterCountsCreatedRows ==
  AllFree => \A o \in Orgs :
    /\ orgData[o].current.patients
         = InitialUsage(o, "patients") + Cardinality(orgData[o].createdPatients)
    /\ orgData[o].current.users
         = InitialUsage(o, "users") + Cardinality(orgData[o].invited)

(* what the handlers do keep: a request answered 401 or 403 leaves the *)
(* counters alone, one answered 201 raises exactly one of them by one, *)
(* and no counter is raised past its maximum by requests served one at *)
(* a time                                                              *)
C37_RejectedBeforeTheCount ==
  [][(resp' # resp /\ resp'.op \in CreateOps) =>
       /\ resp'.status \in {401, 403} => \A o \in Orgs : Counters(o)' = Counters(o)
       /\ resp'.status = 201 =>
            \E o \in Orgs :
              /\ Counters(o)'[1] + Counters(o)'[2] = Counters(o)[1] + Counters(o)[2] + 1
              /\ \A q \in Orgs \ {o} : Counters(q)' = Counters(q)]_vars

(* a request was answered 400 and the counter stands above the rows *)
C37_WitnessCountedFailure ==
  /\ resp.op = "patients" /\ resp.status = 400
  /\ orgData["o2"].current.patients
       > InitialUsage("o2", "patients") + Cardinality(orgData["o2"].createdPatients)

(* the counter of o2 reached its maximum although no row was created *)
C37_WitnessLimitUsedUp ==
  /\ resp.op = "patients" /\ resp.status = 403 /\ resp.reason = "usage"
  /\ orgData["o2"].createdPatients = {}


(* ---------------- reset-password next to a login ---------------- *)
(* u1 logs in with the password set at registration or with the stored   *)
(* one while a reset of the password is requested and carried out        *)
NextResetRace ==
  \/ \E r \in Slots, pw \in {"pwA", "pwB"} : LoginStart(r, "u1", pw)
  \/ \E r \in Slots : LoginVerify(r)
  \/ \E r \in Slots : LoginUpdateUser(r)
  \/ \E r \in Slots : ForgotPassword(r, "u1")
  \/ \E r \in Slots, k \in ResetTokens : ResetPasswordStart(r, k, "pwB")
  \/ \E r \in Slots : ResetPasswordUpdate(r)
  \/ \E r \in Slots : ResetPasswordSessions(r)

SpecResetRace == InitSession /\ [][NextResetRace]_vars

(* a reset of u's password still has its session invalidation ahead *)
ResetPending(u) ==
  \E q \in Slots : /\ req[q].op = "reset_password"
                   /\ req[q].pc = "sessions"
                   /\ req[q].userId = u

(* login request r has created its session with a password that is no *)
(* longer the stored one                                               *)
CreatedWithOldPassword(r) ==
  /\ req[r].op = "login" /\ req[r].pc = "update"
  /\ ~compare(req[r].password, users[req[r].userId].password)

(* C38: once a reset-password request has completed, no session obtained  *)
(* with the old password is valid, also when the login that created it    *)
(* read the user before the reset wrote the new password                  *)
C38_ResetLeavesNoOldPasswordSession ==
  \A r \in Slots :
    (CreatedWithOldPassword(r) /\ ~ResetPending(req[r].userId))
      => ~sessions[req[r].sid].isValid

(* what the handler does keep: at its 200 response every session of the *)
(* user that exists by then is invalid                                   *)
C38_SessionsInvalidAtTheResponse ==
  [][\A r \in Slots :
       (req[r].op = "reset_password" /\ req[r].pc = "sessions" /\ req'[r] = Idle) =>
         /\ resp'.status = 200
         /\ \A i \in 1..Len(sessions') :
              sessions'[i].userId = req[r].userId => ~sessions'[i].isValid]_vars

(* a session created with the old password before the reset was invalidated *)
C38_WitnessInvalidated ==
  /\ resp.op = "reset_password" /\ resp.status = 200
  /\ users["u1"].password = "pwB"
  /\ Len(sessions) > 0
  /\ \A i \in 1..Len(sessions) : ~sessions[i].isValid

(* a login that read the old password creates its session after the reset *)
C38_WitnessLateSession ==
  \E r \in Slots :
    /\ CreatedWithOldPassword(r) /\ ~ResetPending(req[r].userId)
    /\ sessions[req[r].sid].isValid
    /\ resp.op = "reset_password" /\ resp.status = 200


(* ---------------- GET /auth/reset-password/verify ---------------- *)
(* the token is looked up as reset-password looks it up; nothing is written *)
ResetPasswordVerify(token) ==
  /\ resp' = IF token = NoToken
             THEN [op |-> "reset_password_verify", status |-> 400, reason |-> "no_token",
                   event |-> "none", token |-> token]
             ELSE IF FindByResetToken(token) = {}
             THEN [op |-> "reset_password_verify", status |-> 400, reason |-> "bad_token",
                   event |-> "none", token |-> token]
             ELSE [op |-> "reset_password_verify", status |-> 200, reason |-> "valid",
                   event |-> "none", token |-> token]
  /\ UNCHANGED <<authVars, req, tenantVars>>

(* the passwords the holders of a reset token choose *)
NewPasswords == {"pwB", "pwC"}

(* a reset token is issued to u1 and presented, also by two requests at *)
(* once, while the clock runs to the end of its hour and past it        *)
NextResetToken ==
  \/ \E r \in Slots : ForgotPassword(r, "u1")
  \/ \E r \in Slots, k \in ResetTokens, pw \in NewPasswords : ResetPasswordStart(r, k, pw)
  \/ \E r \in Slots : ResetPasswordUpdate(r)
  \/ \E r \in Slots : ResetPasswordSessions(r)
  \/ \E k \in ResetTokens \cup {NoToken} : ResetPasswordVerify(k)
  \/ AllFree /\ now < Jump /\ \E d \in TickSteps : Tick(d)

SpecResetToken == InitSession /\ [][NextResetToken]_vars

(* request r writes the new password in this step *)
WritesPassword(r) ==
  /\ req[r].op = "reset_password" /\ req[r].pc = "update"
  /\ req'[r].pc = "sessions"

(* C39: a reset token changes the password at most once and only before   *)
(* its expiry: the password is written only for a token that is still the *)
(* stored, unexpired one, so of two requests carrying the same token at   *)
(* most one writes                                                        *)
C39_TokenChangesPasswordOnce ==
  [][\A r \in Slots :
       WritesPassword(r) =>
         /\ users[req[r].userId].resetPasswordToken = req[r].token
         /\ users[req[r].userId].resetPasswordExpires > now]_vars

(* what the handlers do keep: a request is let past the lookup only with  *)
(* the stored, unexpired token, so every request that arrives after a     *)
(* reset cleared the token, or after the expiry, is answered 400          *)
C39_SpentTokenIsRefused ==
  [][/\ \A r \in Slots :
          (req[r] = Idle /\ req'[r].op = "reset_password") =>
            /\ users[req'[r].userId].resetPasswordToken = req'[r].token
            /\ users[req'[r].userId].resetPasswordExpires > now
     /\ (resp' # resp /\ resp'.op = "reset_password_verify") =>
          /\ resp'.status \in {200, 400}
          /\ (resp'.status = 200) <=>
               \E u \in Users : /\ users[u].resetPasswordToken = resp'.token
                                /\ users[u].resetPasswordExpires > now
     /\ \A r \in Slots :
          WritesPassword(r) => /\ users'[req[r].userId].resetPasswordToken = NoToken
                               /\ users'[req[r].userId].resetPasswordExpires = Null]_vars

(* the token was used and a later verify of it is answered 400 *)
C39_WitnessSpent ==
  /\ resp.op = "reset_password_verify" /\ resp.status = 400
  /\ resp.token \in 1..tokensIssued
  /\ users["u1"].password \in NewPasswords
  /\ now < RESET_TOKEN_TTL

(* the issued token is verified after its hour and answered 400 *)
C39_WitnessExpired ==
  /\ resp.op = "reset_password_verify" /\ resp.status = 400
  /\ resp.token \in 1..tokensIssued
  /\ users["u1"].resetPasswordToken = resp.token
  /\ users["u1"].resetPasswordExpires <= now

(* a second request holding the same token is about to write another *)
(* password after the first one did                                   *)
C39_WitnessSecondWrite ==
  \E r \in Slots :
    /\ req[r].op = "reset_password" /\ req[r].pc = "update"
    /\ users[req[r].userId].resetPasswordToken = NoToken
    /\ users[req[r].userId].password \in NewPasswords \ {req[r].password}

====
